---- MODULE Spec2Model ----
(***************************************************************************)
(* A model of the tutor registry of src/database/tutors_db.py (TutorsDB):  *)
(* a JSON file guarded by one threading.Lock per TutorsDB instance.        *)
(*                                                                         *)
(* Every operation is split at the points where another thread can run:   *)
(* the entry of `with self._lock`, the read and the method body, the       *)
(* truncating open and the dump of _write_db, the exit of the block.       *)
(*                                                                         *)
(* Spec          one instance constructed on a missing file, one caller,   *)
(*               every operation with every argument.                      *)
(* ThreadSpec    the same instance used by two threads.                    *)
(* RegisterSpec  NumCallers threads, each registering its own id once.     *)
(* FileSpec      one caller; the file starts with arbitrary content,       *)
(*               instances are constructed on it, and the file can be      *)
(*               removed from outside.                                     *)
(***************************************************************************)
EXTENDS Integers, Sequences, FiniteSets, TLC

VARIABLES
    file,     \* content of the file at db_path
    lock,     \* lock[i]: holder of instance i's _lock, for every constructed i
    clock,    \* what datetime.now().isoformat() returns now
    pc,       \* pc[t]: where thread t is inside its current call
    call,     \* call[t]: the operation thread t is in, with its arguments
    local,    \* local[t]: db_data of thread t, the dictionary it will write
    result,   \* result[t]: what the call of thread t returns or raises
    book,     \* the tutor's spreadsheet: book[name] is the rows of worksheet name
    conv,     \* conv[u][flow]: the state of user u's conversation of the flow
    user_data,\* user_data[u]: context.user_data of user u
    run,      \* the handler the bot is running or ran last, and what it did
    prompt    \* prompt[u]: the pair the confirmation prompt showed to user u

vars == <<file, lock, clock, pc, call, local, result, book, conv, user_data, run, prompt>>

-----------------------------------------------------------------------------
(* Bounds and input sets *)

MaxClock == 1
NumCallers == 2

Threads == {"t1", "t2"}
Instances == {"db1", "db2"}
TelegramIds == {"1001", "1002"}
CallerNames == <<"c1", "c2", "c3">>
CallerIds == [c1 |-> "1001", c2 |-> "1002", c3 |-> "1003"]
Names == {"Anna", "Boris"}
SheetIds == {"ws-1", "ws-2"}

None == "None"
Free == "free"

-----------------------------------------------------------------------------
(* The file.  kind says what a reader finds:                               *)
(*   missing           no file at db_path                                  *)
(*   blank             empty or whitespace only                            *)
(*   badjson           text that is not JSON                               *)
(*   array, number     JSON whose top level is a list / a number           *)
(*   object_no_tutors  a JSON object without the key "tutors"              *)
(*   tutors_null       a JSON object whose "tutors" is null                *)
(*   registry          a JSON object whose "tutors" is the list `tutors`   *)

FileOf(kind, tutors) == [kind |-> kind, tutors |-> tutors]

Missing == FileOf("missing", <<>>)
Blank == FileOf("blank", <<>>)
Registry(tutors) == FileOf("registry", tutors)
EmptyRegistry == Registry(<<>>)
MalformedKinds == {"badjson", "array", "number", "object_no_tutors", "tutors_null"}
InitialFiles ==
    {Missing, Blank, EmptyRegistry} \cup {FileOf(k, <<>>) : k \in MalformedKinds}

-----------------------------------------------------------------------------
(* TutorConfig and its dictionary form *)

TutorConfig(telegram_id, name, sheets_id, created_at, updated_at) ==
    [telegram_id |-> telegram_id, name |-> name, sheets_id |-> sheets_id,
     created_at |-> created_at, updated_at |-> updated_at]

to_dict(c) ==
    [telegram_id |-> c.telegram_id, name |-> c.name, sheets_id |-> c.sheets_id,
     created_at |-> c.created_at, updated_at |-> c.updated_at]

\* dict.get(key, default)
DictGet(d, key, default) == IF key \in DOMAIN d THEN d[key] ELSE default

from_dict(d, now) ==
    TutorConfig(d.telegram_id, d.name, d.sheets_id,
                DictGet(d, "created_at", now), DictGet(d, "updated_at", now))

-----------------------------------------------------------------------------
(* Outcomes of a call: err is "ok" or the name of the exception raised;    *)
(* write says whether _write_db(data) follows.                             *)

Outcome(err, val, write, data) ==
    [err |-> err, val |-> val, write |-> write, data |-> data]
Raise(err) == Outcome(err, None, FALSE, <<>>)
Return(val) == Outcome("ok", val, FALSE, <<>>)

IndexOf(tutors, telegram_id) ==
    LET hits == {i \in 1..Len(tutors) :
                    DictGet(tutors[i], "telegram_id", None) = telegram_id}
    IN IF hits = {} THEN 0 ELSE CHOOSE i \in hits : \A j \in hits : i <= j

\* json.load plus the "tutors" default; the exceptions _read_db maps or lets through
read_db(f) ==
    CASE f.kind \in {"missing", "blank", "badjson"} -> Raise("ConfigurationError")
      [] f.kind \in {"array", "number"} -> Raise("TypeError")
      [] f.kind = "object_no_tutors" -> Outcome("ok", "list", FALSE, <<>>)
      [] f.kind = "tutors_null" -> Outcome("ok", "null", FALSE, <<>>)
      [] OTHER -> Outcome("ok", "list", FALSE, f.tutors)

\* register_tutor without the loop that looks for the id
register_tutor_unchecked(tutors, telegram_id, name, sheets_id, now) ==
    LET tutor_config == TutorConfig(telegram_id, name, sheets_id, now, now)
    IN Outcome("ok", tutor_config, TRUE, Append(tutors, to_dict(tutor_config)))

\* register_tutor leaving updated_at to a second, later reading of the clock
register_tutor_two_clocks(tutors, telegram_id, name, sheets_id, now) ==
    IF IndexOf(tutors, telegram_id) # 0
    THEN Raise("TutorAlreadyExistsError")
    ELSE LET tutor_config == TutorConfig(telegram_id, name, sheets_id, now, now + 1)
         IN Outcome("ok", tutor_config, TRUE, Append(tutors, to_dict(tutor_config)))

\* register_tutor replacing the entry of an id that is already there
register_tutor_upsert(tutors, telegram_id, name, sheets_id, now) ==
    LET tutor_config == TutorConfig(telegram_id, name, sheets_id, now, now)
        i == IndexOf(tutors, telegram_id)
    IN IF i # 0
       THEN Outcome("ok", tutor_config, TRUE,
                    [tutors EXCEPT ![i] = to_dict(tutor_config)])
       ELSE Outcome("ok", tutor_config, TRUE, Append(tutors, to_dict(tutor_config)))

register_tutor(tutors, telegram_id, name, sheets_id, now) ==
    IF IndexOf(tutors, telegram_id) # 0
    THEN Raise("TutorAlreadyExistsError")
    ELSE LET tutor_config == TutorConfig(telegram_id, name, sheets_id, now, now)
         IN Outcome("ok", tutor_config, TRUE, Append(tutors, to_dict(tutor_config)))

get_tutor(tutors, telegram_id, now) ==
    LET i == IndexOf(tutors, telegram_id)
    IN IF i = 0 THEN Raise("TutorNotFoundError")
       ELSE Return(from_dict(tutors[i], now))

\* the loop body of update_tutor without the test of the key
UpdateEntryAnyKey(tutor, kwargs, now) ==
    [k \in (DOMAIN tutor) \cup (DOMAIN kwargs) \cup {"updated_at"} |->
        IF k = "updated_at" THEN now
        ELSE IF k \in DOMAIN kwargs THEN kwargs[k]
        ELSE tutor[k]]

\* the loop body of update_tutor on the matching entry
UpdateEntry(tutor, kwargs, now) ==
    LET keys == (DOMAIN kwargs) \cap {"name", "sheets_id"}
    IN [k \in (DOMAIN tutor) \cup keys \cup {"updated_at"} |->
            IF k = "updated_at" THEN now
            ELSE IF k \in keys THEN kwargs[k]
            ELSE tutor[k]]

update_tutor(tutors, telegram_id, kwargs, now) ==
    LET i == IndexOf(tutors, telegram_id)
    IN IF i = 0 THEN Raise("TutorNotFoundError")
       ELSE LET tutor == UpdateEntry(tutors[i], kwargs, now)
            IN Outcome("ok", from_dict(tutor, now), TRUE,
                       [tutors EXCEPT ![i] = tutor])

\* delete_tutor with the comparison of the filter turned round
delete_tutor_inverted(tutors, telegram_id) ==
    LET kept == SelectSeq(tutors,
                    LAMBDA t : DictGet(t, "telegram_id", None) = telegram_id)
    IN IF Len(kept) = Len(tutors) THEN Raise("TutorNotFoundError")
       ELSE Outcome("ok", None, TRUE, kept)

delete_tutor(tutors, telegram_id) ==
    LET kept == SelectSeq(tutors,
                    LAMBDA t : DictGet(t, "telegram_id", None) # telegram_id)
    IN IF Len(kept) = Len(tutors) THEN Raise("TutorNotFoundError")
       ELSE Outcome("ok", None, TRUE, kept)

list_tutors(tutors, now) ==
    Return([i \in 1..Len(tutors) |-> from_dict(tutors[i], now)])

tutor_exists(tutors, telegram_id, now) ==
    LET r == get_tutor(tutors, telegram_id, now)
    IN CASE r.err = "ok" -> Return(TRUE)
         [] r.err = "TutorNotFoundError" -> Return(FALSE)
         [] OTHER -> r

\* What the body of the `with self._lock:` block of call c does on file f
RunOp(f, c, now) ==
    LET r == read_db(f)
    IN IF r.err # "ok" THEN r
       ELSE IF r.val = "null" THEN Raise("TypeError")
       ELSE CASE c.op = "register" ->
                    register_tutor(r.data, c.telegram_id, c.name, c.sheets_id, now)
              [] c.op = "get" -> get_tutor(r.data, c.telegram_id, now)
              [] c.op = "update" -> update_tutor(r.data, c.telegram_id, c.kwargs, now)
              [] c.op = "delete" -> delete_tutor(r.data, c.telegram_id)
              [] c.op = "list" -> list_tutors(r.data, now)
              [] OTHER -> tutor_exists(r.data, c.telegram_id, now)

-----------------------------------------------------------------------------
(* Calls *)

EmptyKwargs == [k \in {} |-> None]

CallOf(op, inst, telegram_id, name, sheets_id, kwargs) ==
    [op |-> op, inst |-> inst, telegram_id |-> telegram_id, name |-> name,
     sheets_id |-> sheets_id, kwargs |-> kwargs]

NoCall == CallOf("none", None, None, None, None, EmptyKwargs)
NoResult == [err |-> "none", val |-> None]

\* update_tutor(id, **kwargs): any subset of the two mutable fields, with or
\* without a key the method does not recognize (created_at, with a later time)
Kwargs(keys) ==
    [k \in keys |-> CASE k = "name" -> "Boris"
                      [] k = "sheets_id" -> "ws-2"
                      [] OTHER -> MaxClock + 1]
UpdateKwargs == {Kwargs(keys) : keys \in SUBSET {"name", "sheets_id", "created_at"}}

CallsOn(insts, ops, ids, names, sheets, kwargs) ==
    {CallOf("register", inst, id, n, s, EmptyKwargs) :
        inst \in insts, id \in ids, n \in names, s \in sheets}
    \cup {CallOf("update", inst, id, None, None, kw) :
            inst \in insts, id \in ids, kw \in kwargs}
    \cup {CallOf(op, inst, id, None, None, EmptyKwargs) :
            inst \in insts, op \in ops, id \in ids}
    \cup {CallOf("list", inst, None, None, None, EmptyKwargs) : inst \in insts}

\* every call with every argument
AllCalls(insts) ==
    CallsOn(insts, {"get", "delete", "exists"}, TelegramIds,
            Names, SheetIds, UpdateKwargs)
\* every operation on every id, one choice of the other arguments
FewCalls(insts) ==
    CallsOn(insts, {"get", "delete", "exists"}, TelegramIds,
            {"Anna"}, {"ws-1"}, {Kwargs({"name"})})
\* the five operations that take the lock themselves
LockingCalls(insts) ==
    CallsOn(insts, {"get", "delete"}, TelegramIds,
            {"Anna"}, {"ws-1"}, {Kwargs({"name"})})

-----------------------------------------------------------------------------
(* Steps of a call of thread t *)

\* the caller invokes a method of a constructed instance
Call(t, calls) ==
    /\ pc[t] = "idle"
    /\ \E c \in calls : call' = [call EXCEPT ![t] = c]
    /\ pc' = [pc EXCEPT ![t] = "acquire"]
    /\ UNCHANGED <<file, lock, clock, local, result, book, conv, user_data, run, prompt>>

\* a lock that lets everybody in
CanAcquireAlways(t) == TRUE

\* `with self._lock:` is entered
CanAcquire(t) == lock[call[t].inst] = Free

\* the method body run without `with self._lock:`
AcquireUnlocked(t) ==
    /\ pc[t] = "acquire"
    /\ pc' = [pc EXCEPT ![t] = "read"]
    /\ UNCHANGED <<file, lock, clock, call, local, result, book, conv, user_data, run, prompt>>

Acquire(t) ==
    /\ pc[t] = "acquire"
    /\ CanAcquire(t)
    /\ lock' = [lock EXCEPT ![call[t].inst] = t]
    /\ pc' = [pc EXCEPT ![t] = "read"]
    /\ UNCHANGED <<file, clock, call, local, result, book, conv, user_data, run, prompt>>

\* _read_db() and the method's work on db_data, up to its _write_db or its end
Body(t) ==
    /\ pc[t] = "read"
    /\ LET o == RunOp(file, call[t], clock)
       IN /\ result' = [result EXCEPT ![t] = [err |-> o.err, val |-> o.val]]
          /\ local' = [local EXCEPT ![t] = o.data]
          /\ pc' = [pc EXCEPT ![t] = IF o.write THEN "write" ELSE "release"]
    /\ UNCHANGED <<file, lock, clock, call, book, conv, user_data, run, prompt>>

\* _write_db: open(db_path, "w") truncates (or creates) the file
WriteOpen(t) ==
    /\ pc[t] = "write"
    /\ file' = Blank
    /\ pc' = [pc EXCEPT ![t] = "dump"]
    /\ UNCHANGED <<lock, clock, call, local, result, book, conv, user_data, run, prompt>>

\* _write_db: json.dump(data, f) and the close of the file
Dumped(data) == Registry(data)

WriteDump(t) ==
    /\ pc[t] = "dump"
    /\ file' = Dumped(local[t])
    /\ IF call[t].op = "construct"
       THEN /\ pc' = [pc EXCEPT ![t] = "done"]
            /\ lock' = (call[t].inst :> Free) @@ lock
       ELSE /\ pc' = [pc EXCEPT ![t] = "release"]
            /\ lock' = lock
    /\ UNCHANGED <<clock, call, local, result, book, conv, user_data, run, prompt>>

\* the `with` block is left, by return or by exception
Release(t) ==
    /\ pc[t] = "release"
    /\ lock' = [lock EXCEPT ![call[t].inst] = Free]
    /\ pc' = [pc EXCEPT ![t] = "done"]
    /\ UNCHANGED <<file, clock, call, local, result, book, conv, user_data, run, prompt>>

\* the caller has taken the result
Finish(t) ==
    /\ pc[t] = "done"
    /\ pc' = [pc EXCEPT ![t] = "idle"]
    /\ call' = [call EXCEPT ![t] = NoCall]
    /\ local' = [local EXCEPT ![t] = <<>>]
    /\ result' = [result EXCEPT ![t] = NoResult]
    /\ UNCHANGED <<file, lock, clock, book, conv, user_data, run, prompt>>

\* the system clock advances
Tick ==
    /\ clock < MaxClock
    /\ clock' = clock + 1
    /\ UNCHANGED <<file, lock, pc, call, local, result, book, conv, user_data, run, prompt>>
-----------------------------------------------------------------------------
(* Spec: one instance, constructed on a missing file, used by one thread *)

InitThreads(T) ==
    /\ pc = [t \in T |-> "idle"]
    /\ call = [t \in T |-> NoCall]
    /\ local = [t \in T |-> <<>>]
    /\ result = [t \in T |-> NoResult]

\* a spreadsheet without worksheets
NoBook == [n \in {} |-> <<>>]

\* no bot: no conversation, no user data, no handler run
NoBot ==
    /\ conv = [u \in {} |-> None]
    /\ user_data = [u \in {} |-> None]
    /\ run = [status |-> "none"]
    /\ prompt = [u \in {} |-> None]

InitOpened ==
    /\ file = EmptyRegistry
    /\ lock = [i \in {"db1"} |-> Free]
    /\ clock = 0
    /\ book = NoBook
    /\ NoBot

Init == InitOpened /\ InitThreads({"main"})

Next ==
    \/ \E t \in DOMAIN pc : Call(t, AllCalls(DOMAIN lock))
    \/ \E t \in DOMAIN pc : Acquire(t)
    \/ \E t \in DOMAIN pc : Body(t)
    \/ \E t \in DOMAIN pc : WriteOpen(t)
    \/ \E t \in DOMAIN pc : WriteDump(t)
    \/ \E t \in DOMAIN pc : Release(t)
    \/ \E t \in DOMAIN pc : Finish(t)
    \/ Tick

Spec == Init /\ [][Next]_vars

-----------------------------------------------------------------------------
(* ThreadSpec: the instance of Spec used by two threads *)

ThreadInit == InitOpened /\ InitThreads(Threads)

ThreadNext ==
    \/ \E t \in DOMAIN pc : Call(t, LockingCalls(DOMAIN lock))
    \/ \E t \in DOMAIN pc : Acquire(t)
    \/ \E t \in DOMAIN pc : Body(t)
    \/ \E t \in DOMAIN pc : WriteOpen(t)
    \/ \E t \in DOMAIN pc : WriteDump(t)
    \/ \E t \in DOMAIN pc : Release(t)
    \/ \E t \in DOMAIN pc : Finish(t)
    \/ Tick

ThreadSpec == ThreadInit /\ [][ThreadNext]_vars

-----------------------------------------------------------------------------
(* RegisterSpec: NumCallers threads, each calls register_tutor once, with  *)
(* an id of its own (test_thread_safe_operations, with distinct ids)       *)

Callers == {CallerNames[i] : i \in 1..NumCallers}

CallRegister(t) ==
    /\ pc[t] = "idle"
    /\ \E n \in Names :
            call' = [call EXCEPT ![t] =
                        CallOf("register", "db1", CallerIds[t], n, "ws-1", EmptyKwargs)]
    /\ pc' = [pc EXCEPT ![t] = "acquire"]
    /\ UNCHANGED <<file, lock, clock, local, result, book, conv, user_data, run, prompt>>

RegisterInit == InitOpened /\ InitThreads(Callers)

RegisterNext ==
    \/ \E t \in DOMAIN pc : CallRegister(t)
    \/ \E t \in DOMAIN pc : Acquire(t)
    \/ \E t \in DOMAIN pc : Body(t)
    \/ \E t \in DOMAIN pc : WriteOpen(t)
    \/ \E t \in DOMAIN pc : WriteDump(t)
    \/ \E t \in DOMAIN pc : Release(t)
    \/ Tick

RegisterSpec == RegisterInit /\ [][RegisterNext]_vars

-----------------------------------------------------------------------------
(* FileSpec: the file starts with any content; one thread constructs       *)
(* instances on it and calls them; the file can be removed from outside    *)

\* TutorsDB(db_path) is called
Construct(t) ==
    /\ pc[t] = "idle"
    /\ \E inst \in Instances \ DOMAIN lock :
            call' = [call EXCEPT ![t] =
                        CallOf("construct", inst, None, None, None, EmptyKwargs)]
    /\ pc' = [pc EXCEPT ![t] = "exists"]
    /\ UNCHANGED <<file, lock, clock, local, result, book, conv, user_data, run, prompt>>

\* _ensure_db_exists: os.path.exists(db_path)
path_exists(f) == f.kind # "missing"

EnsureExists(t) ==
    /\ pc[t] = "exists"
    /\ pc' = [pc EXCEPT ![t] = IF path_exists(file) THEN "content" ELSE "write"]
    /\ local' = [local EXCEPT ![t] = <<>>]
    /\ UNCHANGED <<file, lock, clock, call, result, book, conv, user_data, run, prompt>>

\* _ensure_db_exists writing the empty registry whatever it reads
content_needs_init_always(f) == TRUE

\* _ensure_db_exists: whether the read of the file leads to _write_db({"tutors": []}):
\* the content strips to nothing, or open() raises IOError
content_needs_init(f) == f.kind \in {"missing", "blank"}

EnsureContent(t) ==
    /\ pc[t] = "content"
    /\ IF content_needs_init(file)
       THEN /\ pc' = [pc EXCEPT ![t] = "write"]
            /\ lock' = lock
       ELSE /\ pc' = [pc EXCEPT ![t] = "done"]
            /\ lock' = (call[t].inst :> Free) @@ lock
    /\ UNCHANGED <<file, clock, call, local, result, book, conv, user_data, run, prompt>>

\* somebody outside the program removes the file while no write has it open
RemoveFile ==
    /\ file.kind # "missing"
    /\ \A t \in DOMAIN pc : pc[t] # "dump"
    /\ file' = Missing
    /\ UNCHANGED <<lock, clock, pc, call, local, result, book, conv, user_data, run, prompt>>

FileInit ==
    /\ file \in InitialFiles
    /\ lock = [i \in {} |-> Free]
    /\ clock = 0
    /\ book = NoBook
    /\ NoBot
    /\ InitThreads({"main"})

FileNext ==
    \/ \E t \in DOMAIN pc : Construct(t)
    \/ \E t \in DOMAIN pc : EnsureExists(t)
    \/ \E t \in DOMAIN pc : EnsureContent(t)
    \/ \E t \in DOMAIN pc : Call(t, FewCalls(DOMAIN lock))
    \/ \E t \in DOMAIN pc : Acquire(t)
    \/ \E t \in DOMAIN pc : Body(t)
    \/ \E t \in DOMAIN pc : WriteOpen(t)
    \/ \E t \in DOMAIN pc : WriteDump(t)
    \/ \E t \in DOMAIN pc : Release(t)
    \/ \E t \in DOMAIN pc : Finish(t)
    \/ RemoveFile
    \/ Tick

FileSpec == FileInit /\ [][FileNext]_vars

-----------------------------------------------------------------------------
(* Properties *)

\* thread t takes the step that leaves position `from`
Leaves(t, from) == pc[t] = from /\ pc'[t] # from

Registered(f, telegram_id) ==
    f.kind = "registry" /\ IndexOf(f.tutors, telegram_id) # 0

\* what get_tutor(id) / list_tutors() return on file f at time now
GetOn(f, telegram_id, now) ==
    RunOp(f, CallOf("get", "db1", telegram_id, None, None, EmptyKwargs), now)
ListOn(f, now) ==
    RunOp(f, CallOf("list", "db1", None, None, None, EmptyKwargs), now)

\* seq without its element at position i
Without(seq, i) == SubSeq(seq, 1, i - 1) \o SubSeq(seq, i + 1, Len(seq))

Times == 0..MaxClock

\* C1: no two entries of the persisted tutors list have the same telegram_id,
\* after any interleaving of register, update and delete calls of two threads
\* on one instance that started from the empty registry.
C1_UniqueIds ==
    \A i, j \in 1..Len(file.tutors) :
        file.tutors[i].telegram_id = file.tutors[j].telegram_id => i = j

C1_Witness ==
    /\ Len(file.tutors) = 2
    /\ \E t, u \in DOMAIN pc :
        /\ pc[t] = "done" /\ call[t].op = "update" /\ result[t].err = "ok"
        /\ pc[u] = "done" /\ call[u].op = "register"
        /\ result[u].err = "TutorAlreadyExistsError"

\* C2: register_tutor of an id that is not registered succeeds and returns a
\* TutorConfig with the given id, name and sheets_id and created_at = updated_at;
\* once its write is done, get_tutor(id) returns that same TutorConfig.
C2_RegisterThenGet ==
    [][\A t \in DOMAIN pc : call[t].op = "register" =>
        /\ (Leaves(t, "read") /\ ~Registered(file, call[t].telegram_id)) =>
              /\ result'[t].err = "ok"
              /\ pc'[t] = "write"
              /\ result'[t].val.telegram_id = call[t].telegram_id
              /\ result'[t].val.name = call[t].name
              /\ result'[t].val.sheets_id = call[t].sheets_id
              /\ result'[t].val.created_at = result'[t].val.updated_at
        /\ Leaves(t, "dump") =>
              \A now \in Times :
                  GetOn(file', call[t].telegram_id, now) = Return(result[t].val)
      ]_vars

C2_Witness ==
    \E t \in DOMAIN pc :
        /\ pc[t] = "done" /\ call[t].op = "register" /\ result[t].err = "ok"
        /\ result[t].val.created_at > 0
        /\ Len(file.tutors) = 2

\* C3: register_tutor of an id that is already registered raises
\* TutorAlreadyExistsError, writes nothing, and the file stays as it was.
C3_DuplicateRejected ==
    [][\A t \in DOMAIN pc : call[t].op = "register" =>
        /\ (Leaves(t, "read") /\ Registered(file, call[t].telegram_id)) =>
              /\ result'[t].err = "TutorAlreadyExistsError"
              /\ pc'[t] = "release"
        /\ (pc'[t] # pc[t] /\ result'[t].err = "TutorAlreadyExistsError") =>
              file' = file
      ]_vars

C3_Witness ==
    \E t \in DOMAIN pc :
        /\ pc[t] = "done" /\ call[t].op = "register"
        /\ result[t].err = "TutorAlreadyExistsError"
        /\ \E i \in 1..Len(file.tutors) :
              /\ file.tutors[i].telegram_id = call[t].telegram_id
              /\ file.tutors[i].name # call[t].name

\* C4: delete_tutor of a registered id writes the list without that entry, the
\* other entries in their order, and get_tutor(id) then raises
\* TutorNotFoundError; delete_tutor of an absent id raises TutorNotFoundError
\* and does not write the file.
C4_Delete ==
    [][\A t \in DOMAIN pc : call[t].op = "delete" =>
        /\ (Leaves(t, "read") /\ Registered(file, call[t].telegram_id)) =>
              /\ result'[t].err = "ok"
              /\ pc'[t] = "write"
              /\ local'[t] =
                    Without(file.tutors, IndexOf(file.tutors, call[t].telegram_id))
        /\ Leaves(t, "dump") =>
              /\ file' = Registry(local[t])
              /\ \A now \in Times :
                    GetOn(file', call[t].telegram_id, now).err = "TutorNotFoundError"
        /\ (Leaves(t, "read") /\ ~Registered(file, call[t].telegram_id)) =>
              /\ result'[t].err = "TutorNotFoundError"
              /\ pc'[t] = "release"
        /\ (pc'[t] # pc[t] /\ result'[t].err = "TutorNotFoundError") => file' = file
      ]_vars

C4_Witness ==
    /\ Len(file.tutors) = 1
    /\ \E t \in DOMAIN pc :
        /\ pc[t] = "done" /\ call[t].op = "delete" /\ result[t].err = "ok"
        /\ file.tutors[1].telegram_id # call[t].telegram_id

\* C5: update_tutor of an absent id raises TutorNotFoundError and writes nothing;
\* of a registered id it writes the list with that one entry changed in name and
\* sheets_id (each only if given) and updated_at, every other key and every other
\* entry as before, and returns what get_tutor(id) returns after the write.
C5_ExpectedEntry(old, kwargs, now) ==
    [telegram_id |-> old.telegram_id,
     name |-> IF "name" \in DOMAIN kwargs THEN kwargs.name ELSE old.name,
     sheets_id |-> IF "sheets_id" \in DOMAIN kwargs THEN kwargs.sheets_id
                   ELSE old.sheets_id,
     created_at |-> old.created_at,
     updated_at |-> now]

C5_Update ==
    [][\A t \in DOMAIN pc : call[t].op = "update" =>
        /\ (Leaves(t, "read") /\ ~Registered(file, call[t].telegram_id)) =>
              /\ result'[t].err = "TutorNotFoundError"
              /\ pc'[t] = "release"
        /\ (pc'[t] # pc[t] /\ result'[t].err = "TutorNotFoundError") => file' = file
        /\ (Leaves(t, "read") /\ Registered(file, call[t].telegram_id)) =>
              LET i == IndexOf(file.tutors, call[t].telegram_id)
              IN /\ result'[t].err = "ok"
                 /\ pc'[t] = "write"
                 /\ Len(local'[t]) = Len(file.tutors)
                 /\ \A j \in 1..Len(file.tutors) :
                       j # i => local'[t][j] = file.tutors[j]
                 /\ local'[t][i] =
                       C5_ExpectedEntry(file.tutors[i], call[t].kwargs, clock)
        /\ Leaves(t, "dump") =>
              /\ file' = Registry(local[t])
              /\ \A now \in Times :
                    GetOn(file', call[t].telegram_id, now) = Return(result[t].val)
      ]_vars

C5_Witness ==
    \E t \in DOMAIN pc :
        /\ pc[t] = "done" /\ call[t].op = "update" /\ result[t].err = "ok"
        /\ DOMAIN call[t].kwargs = {"name", "created_at"}
        /\ Len(file.tutors) = 2
        /\ result[t].val.created_at < result[t].val.updated_at

\* C6: when the callers register pairwise distinct ids concurrently and all
\* calls have returned, every call has succeeded and list_tutors() returns
\* exactly one entry per caller, the TutorConfig that caller's call returned.
C6_AllRegistered ==
    (\A t \in DOMAIN pc : pc[t] = "done") =>
        /\ \A t \in DOMAIN pc : result[t].err = "ok"
        /\ ListOn(file, clock).err = "ok"
        /\ LET l == ListOn(file, clock).val
           IN /\ Len(l) = Cardinality(DOMAIN pc)
              /\ \A t \in DOMAIN pc :
                    /\ Cardinality({i \in 1..Len(l) :
                            l[i].telegram_id = CallerIds[t]}) = 1
                    /\ \E i \in 1..Len(l) : l[i] = result[t].val

C6_Witness ==
    /\ \A t \in DOMAIN pc : pc[t] = "done"
    /\ \E t \in DOMAIN pc : result[t].val.created_at > 0

\* C7: a thread that is between its read of the file and the end of its write
\* holds the instance lock, and no two threads are there at the same time.
C7_LockHeld ==
    /\ \A t \in DOMAIN pc :
          pc[t] \in {"read", "write", "dump", "release"} => lock[call[t].inst] = t
    /\ Cardinality({t \in DOMAIN pc : pc[t] \in {"read", "write", "dump"}}) <= 1

C7_Witness ==
    \E t, u \in DOMAIN pc :
        /\ pc[t] = "dump" /\ call[t].op = "update"
        /\ pc[u] = "acquire" /\ call[u].op = "delete"

\* C8: the construction of a TutorsDB on a file that holds a registry with at
\* least one entry does not change the file, and when it has returned,
\* get_tutor returns every entry of the file, and list_tutors all of them in
\* order, with the field values the file holds.
C8_ReopenKeepsFile ==
    [][\A t \in DOMAIN pc :
        (/\ call[t].op = "construct"
         /\ pc'[t] # pc[t]
         /\ file.kind = "registry"
         /\ Len(file.tutors) > 0) =>
            /\ file' = file
            /\ pc'[t] = "done" =>
                  /\ call[t].inst \in DOMAIN lock'
                  /\ \A i \in 1..Len(file.tutors) : \A now \in Times :
                        LET g == GetOn(file', file.tutors[i].telegram_id, now)
                        IN g.err = "ok" /\ to_dict(g.val) = file.tutors[i]
                  /\ \A now \in Times :
                        LET l == ListOn(file', now)
                        IN /\ l.err = "ok"
                           /\ Len(l.val) = Len(file.tutors)
                           /\ \A i \in 1..Len(l.val) :
                                 to_dict(l.val[i]) = file.tutors[i]
      ]_vars

C8_Witness ==
    \E t \in DOMAIN pc :
        /\ pc[t] = "done" /\ call[t].op = "construct"
        /\ DOMAIN lock = Instances
        /\ file.kind = "registry"
        /\ Len(file.tutors) = 2

\* C9: the construction of a TutorsDB on a missing or blank file leaves the
\* file an empty registry, on which list_tutors() returns the empty sequence;
\* and on every other file that is not a registry document, every operation
\* raises ConfigurationError.
C9_MalformedIsConfigurationError ==
    [][\A t \in DOMAIN pc :
        /\ (call[t].op = "construct" /\ Leaves(t, "dump")) =>
              /\ file' = EmptyRegistry
              /\ ListOn(file', clock') = Return(<<>>)
        /\ (call[t].op = "construct" /\ pc'[t] = "done" /\ pc[t] # "done") =>
              file'.kind \notin {"missing", "blank"}
        /\ (Leaves(t, "read") /\ file.kind \in MalformedKinds) =>
              result'[t].err = "ConfigurationError"
      ]_vars

\* C10: tutor_exists(id) returns a boolean in every state of the file, TRUE
\* exactly when the file is a registry that holds an entry of that id.
C10_ExistsNeverRaises ==
    [][\A t \in DOMAIN pc :
        (call[t].op = "exists" /\ Leaves(t, "read")) =>
            /\ result'[t].err = "ok"
            /\ result'[t].val = Registered(file, call[t].telegram_id)
      ]_vars

-----------------------------------------------------------------------------
(* Records of src/utils/models.py and their rows.  A field that is None    *)
(* holds None; sheet_row that is None holds NoRow.                         *)

NoRow == -1

Student(name, telegram_id, email, phone, notes, sheet_row) ==
    [name |-> name, telegram_id |-> telegram_id, email |-> email,
     phone |-> phone, notes |-> notes, sheet_row |-> sheet_row]

Lesson(student_name, date, time, duration, topic, notes, sheet_row) ==
    [student_name |-> student_name, date |-> date, time |-> time,
     duration |-> duration, topic |-> topic, notes |-> notes,
     sheet_row |-> sheet_row]

Payment(student_name, amount, date, method, notes, sheet_row) ==
    [student_name |-> student_name, amount |-> amount, date |-> date,
     method |-> method, notes |-> notes, sheet_row |-> sheet_row]

\* `x or ""`
OrEmpty(x) == IF x = None \/ x = "" THEN "" ELSE x
\* `row[i] if len(row) > i else ""`, i counted from 0
Required(row, i) == IF Len(row) > i THEN row[i + 1] ELSE ""
\* `row[i] if len(row) > i and row[i] else None`, i counted from 0
Optional(row, i) == IF Len(row) > i /\ row[i + 1] # "" THEN row[i + 1] ELSE None

student_to_row(s) ==
    <<s.name, OrEmpty(s.telegram_id), OrEmpty(s.email), OrEmpty(s.phone),
      OrEmpty(s.notes)>>

\* Student.from_row reading the phone where the email is
student_from_row_shifted(row, sheet_row) ==
    Student(Required(row, 0), Optional(row, 1), Optional(row, 3), Optional(row, 3),
            Optional(row, 4), sheet_row)

student_from_row(row, sheet_row) ==
    Student(Required(row, 0), Optional(row, 1), Optional(row, 2), Optional(row, 3),
            Optional(row, 4), sheet_row)

lesson_to_row(l) ==
    <<l.student_name, l.date, OrEmpty(l.time), OrEmpty(l.duration),
      OrEmpty(l.topic), OrEmpty(l.notes)>>

lesson_from_row(row, sheet_row) ==
    Lesson(Required(row, 0), Required(row, 1), Optional(row, 2), Optional(row, 3),
           Optional(row, 4), Optional(row, 5), sheet_row)

payment_to_row(p) ==
    <<p.student_name, p.amount, p.date, OrEmpty(p.method), OrEmpty(p.notes)>>

payment_from_row(row, sheet_row) ==
    Payment(Required(row, 0), Required(row, 1), Required(row, 2), Optional(row, 3),
            Optional(row, 4), sheet_row)

Kinds == {"Student", "Lesson", "Payment"}

to_row(kind, rec) ==
    CASE kind = "Student" -> student_to_row(rec)
      [] kind = "Lesson" -> lesson_to_row(rec)
      [] OTHER -> payment_to_row(rec)

from_row(kind, row, sheet_row) ==
    CASE kind = "Student" -> student_from_row(row, sheet_row)
      [] kind = "Lesson" -> lesson_from_row(row, sheet_row)
      [] OTHER -> payment_from_row(row, sheet_row)

\* the names of the optional fields of a record kind
OptionalFields(kind) ==
    CASE kind = "Student" -> {"telegram_id", "email", "phone", "notes"}
      [] kind = "Lesson" -> {"time", "duration", "topic", "notes"}
      [] OTHER -> {"method", "notes"}

-----------------------------------------------------------------------------
(* CodecSpec: one record of any kind is encoded by to_row, and the row is  *)
(* decoded by from_row, called with a position or without (the default 0) *)

RequiredValues == {"", "Oleg"}
OptionalValues == {None, "", "o@x.com"}
SheetRows == {NoRow, 0, 2}

Students ==
    {Student(n, a, b, c, d, r) : n \in RequiredValues, a \in OptionalValues,
        b \in OptionalValues, c \in OptionalValues, d \in OptionalValues,
        r \in SheetRows}
Lessons ==
    {Lesson(n, dt, a, b, c, d, r) : n \in RequiredValues, dt \in RequiredValues,
        a \in OptionalValues, b \in OptionalValues, c \in OptionalValues,
        d \in OptionalValues, r \in SheetRows}
Payments ==
    {Payment(n, am, dt, a, b, r) : n \in RequiredValues, am \in RequiredValues,
        dt \in RequiredValues, a \in OptionalValues, b \in OptionalValues,
        r \in SheetRows}

RecordsOf(kind) ==
    CASE kind = "Student" -> Students
      [] kind = "Lesson" -> Lessons
      [] OTHER -> Payments

CodecCall(kind, rec, sheet_row) ==
    [op |-> "roundtrip", kind |-> kind, rec |-> rec, sheet_row |-> sheet_row]

Encode(t) ==
    /\ pc[t] = "idle"
    /\ local' = [local EXCEPT ![t] = to_row(call[t].kind, call[t].rec)]
    /\ pc' = [pc EXCEPT ![t] = "encoded"]
    /\ UNCHANGED <<file, lock, clock, call, result, book, conv, user_data, run, prompt>>

Decode(t) ==
    /\ pc[t] = "encoded"
    /\ result' = [result EXCEPT ![t] =
            [err |-> "ok",
             val |-> from_row(call[t].kind, local[t], call[t].sheet_row)]]
    /\ pc' = [pc EXCEPT ![t] = "done"]
    /\ UNCHANGED <<file, lock, clock, call, local, book, conv, user_data, run, prompt>>

CodecInit ==
    /\ InitOpened
    /\ pc = [t \in {"main"} |-> "idle"]
    /\ \E kind \in Kinds : \E rec \in RecordsOf(kind) : \E r \in {0, 2} :
            call = [t \in {"main"} |-> CodecCall(kind, rec, r)]
    /\ local = [t \in {"main"} |-> <<>>]
    /\ result = [t \in {"main"} |-> NoResult]

CodecNext ==
    \/ \E t \in DOMAIN pc : Encode(t)
    \/ \E t \in DOMAIN pc : Decode(t)

CodecSpec == CodecInit /\ [][CodecNext]_vars

\* what a record keeps of itself in a row: an optional field that is the
\* empty string is None afterwards
Normalized(kind, rec) ==
    [f \in DOMAIN rec |->
        IF f \in OptionalFields(kind) /\ rec[f] = "" THEN None ELSE rec[f]]

\* C11 as claimed: from_row(to_row(record)) = record for every record.
C11_RoundTrip ==
    \A t \in DOMAIN pc :
        (pc[t] = "done" /\ call[t].sheet_row = 0) => result[t].val = call[t].rec

\* C11 as amended: from_row(to_row(record), p) is the record with every
\* empty-string optional field replaced by None and with sheet_row p (0 when
\* from_row is called without it); so it is the record itself when no optional
\* field is the empty string and p is the record's sheet_row.
C11_RoundTripNormalized ==
    \A t \in DOMAIN pc : pc[t] = "done" =>
        /\ result[t].val =
              [Normalized(call[t].kind, call[t].rec)
                  EXCEPT !.sheet_row = call[t].sheet_row]
        /\ ((\A f \in OptionalFields(call[t].kind) : call[t].rec[f] # "")
            /\ call[t].rec.sheet_row = call[t].sheet_row)
              => result[t].val = call[t].rec

C11_Witness ==
    \E t \in DOMAIN pc :
        /\ pc[t] = "done"
        /\ call[t].kind = "Student"
        /\ call[t].rec.email = "o@x.com" /\ call[t].rec.phone = None
        /\ call[t].rec.notes = ""
        /\ result[t].val.notes = None

-----------------------------------------------------------------------------
(* The spreadsheet backend (gspread).  A worksheet is the sequence of its   *)
(* rows, a row the sequence of its cells; cells are kept up to the last     *)
(* non-empty cell of a row and rows up to the last non-empty row, which is  *)
(* what the backend reports.  The worksheets are named in the source        *)
(*   Students = "Ученики", Lessons = "Уроки", Payments = "Платежи",          *)
(*   History = "История", Settings = "Настройки".                            *)

WorksheetNames == <<"Students", "Lessons", "Payments", "History", "Settings">>

WORKSHEET_HEADERS ==
    [Students |-> <<"Name", "Telegram ID", "Email", "Phone", "Notes">>,
     Lessons |-> <<"Student", "Date", "Time", "Duration", "Topic", "Notes">>,
     Payments |-> <<"Student", "Amount", "Date", "Method", "Notes">>,
     History |-> <<"Date", "Event", "Detail">>,
     Settings |-> <<"Key", "Value">>]

\* WORKSHEET_HEADERS.get(worksheet_name, [])
HeadersOf(name) ==
    IF name \in DOMAIN WORKSHEET_HEADERS THEN WORKSHEET_HEADERS[name] ELSE <<>>

Max(a, b) == IF a >= b THEN a ELSE b

RECURSIVE Trim(_)
Trim(row) ==
    IF row = <<>> THEN <<>>
    ELSE IF row[Len(row)] = "" THEN Trim(SubSeq(row, 1, Len(row) - 1))
    ELSE row

RECURSIVE TrimRows(_)
TrimRows(rows) ==
    IF rows = <<>> THEN <<>>
    ELSE IF rows[Len(rows)] = <<>> THEN TrimRows(SubSeq(rows, 1, Len(rows) - 1))
    ELSE rows

Width(rows) ==
    IF rows = <<>> THEN 0
    ELSE CHOOSE w \in {Len(rows[i]) : i \in DOMAIN rows} :
            \A i \in DOMAIN rows : Len(rows[i]) <= w

Pad(row, w) == [c \in 1..w |-> IF c <= Len(row) THEN row[c] ELSE ""]

\* Worksheet.get_all_values(): the rows, each filled up to the widest one
get_all_values(rows) == [i \in 1..Len(rows) |-> Pad(rows[i], Width(rows))]

\* the row put before the first row, instead of after the last
append_row_first(rows, values) == TrimRows(<<Trim(values)>> \o rows)

\* Worksheet.append_row(values): the row after the last row that has data
append_row(rows, values) == TrimRows(rows \o <<Trim(values)>>)

\* update_cell writing the cell and clearing the cells to its right
update_cell_clearing(rows, row, col, value) ==
    LET grown == [i \in 1..Max(Len(rows), row) |->
                    IF i <= Len(rows) THEN rows[i] ELSE <<>>]
        old == grown[row]
        new == [c \in 1..col |->
                    IF c = col THEN value
                    ELSE IF c <= Len(old) THEN old[c] ELSE ""]
    IN TrimRows([grown EXCEPT ![row] = Trim(new)])

\* Worksheet.update_cell(row, col, value), for row >= 1 and col >= 1
update_cell(rows, row, col, value) ==
    LET grown == [i \in 1..Max(Len(rows), row) |->
                    IF i <= Len(rows) THEN rows[i] ELSE <<>>]
        old == grown[row]
        new == [c \in 1..Max(Len(old), col) |->
                    IF c = col THEN value
                    ELSE IF c <= Len(old) THEN old[c] ELSE ""]
    IN TrimRows([grown EXCEPT ![row] = Trim(new)])

\* the cell (row, col) of a worksheet, empty where nothing was written
CellAt(rows, row, col) ==
    IF row \in 1..Len(rows) /\ col \in 1..Len(rows[row]) THEN rows[row][col]
    ELSE ""

\* spreadsheet.worksheet(name) finds no worksheet, whatever there is
has_worksheet_never(bk, name) == FALSE

\* spreadsheet.worksheet(name) finds the worksheet
has_worksheet(bk, name) == name \in DOMAIN bk

\* spreadsheet.add_worksheet(title)
add_worksheet(bk, name) ==
    [n \in DOMAIN bk \cup {name} |-> IF n = name THEN <<>> ELSE bk[n]]

-----------------------------------------------------------------------------
(* SheetsManager, src/database/sheets_manager.py *)

ListOps == {"get_all_students", "get_all_lessons", "get_all_payments"}
AddOps == {"add_student", "add_lesson", "add_payment"}
UpdateOps == {"update_student", "update_lesson", "update_payment"}

KindOf(op) ==
    CASE op \in {"get_all_students", "add_student", "update_student"} -> "Student"
      [] op \in {"get_all_lessons", "add_lesson", "update_lesson"} -> "Lesson"
      [] OTHER -> "Payment"

TableOf(kind) ==
    CASE kind = "Student" -> "Students"
      [] kind = "Lesson" -> "Lessons"
      [] OTHER -> "Payments"

\* the loop of get_all_X over rows[i..] numbered from pos
RECURSIVE get_all_from(_, _, _, _)
get_all_from(kind, rows, i, pos) ==
    IF i > Len(rows) THEN <<>>
    ELSE (IF rows[i] = <<>> \/ rows[i][1] = "" THEN <<>>
          ELSE <<from_row(kind, rows[i], pos)>>)
         \o get_all_from(kind, rows, i + 1, pos + 1)

\* enumerate(rows[1:], start=1)
get_all_from_one(kind, rows) == get_all_from(kind, rows, 2, 1)

\* enumerate(rows[1:], start=2)
get_all(kind, rows) == get_all_from(kind, rows, 2, 2)

\* the first idx of enumerate(rows[1:], start=2) whose row has the key, or 0
find_setting(rows, key) ==
    LET hits == {i \in 2..Len(rows) : rows[i] # <<>> /\ rows[i][1] = key}
    IN IF hits = {} THEN 0 ELSE CHOOSE i \in hits : \A j \in hits : i <= j

\* get_setting after get_all_values
get_setting(rows, key) ==
    LET idx == find_setting(rows, key)
    IN IF idx = 0 THEN None
       ELSE IF Len(rows[idx]) > 1 THEN rows[idx][2] ELSE None

\* datetime.now().isoformat()
isoformat(now) == ToString(now)

MaxOps == 2

SheetCallOf(op, name, arg) == [op |-> op, name |-> name, arg |-> arg]
NoArg == [x \in {} |-> None]
NoSheetCall == SheetCallOf("none", None, NoArg)

Failed(err) == [err |-> err, val |-> None]
Returned(val) == [err |-> "ok", val |-> val]

\* The caller's frame: the worksheet at hand (name), a loop counter (i), the
\* worksheets collected by ensure_all_worksheets (handles); and what the
\* caller has seen: the spreadsheet when the call was made (before), its
\* previous call with its result (prev) and the number of its calls (ops)
NoPrev == [call |-> NoSheetCall, result |-> NoResult, before |-> NoBook]
NoFrame ==
    [name |-> None, i |-> 0, handles |-> {}, before |-> NoBook, prev |-> NoPrev,
     ops |-> 0]

\* the methods that take a spreadsheet, not a sheet_id
TakesSpreadsheet(op) == op \in {"ensure_worksheet_exists", "ensure_all_worksheets"}

\* entry of a method, up to its first call of the backend
SheetCall(t, calls) ==
    /\ pc[t] \in {"idle", "done"}
    /\ local[t].ops < MaxOps
    /\ \E c \in calls :
        /\ call' = [call EXCEPT ![t] = c]
        /\ local' = [local EXCEPT ![t] =
                [name |-> IF c.op = "ensure_all_worksheets"
                          THEN WorksheetNames[1] ELSE c.name,
                 i |-> 1, handles |-> {}, before |-> book,
                 prev |-> IF pc[t] = "done"
                          THEN [call |-> call[t], result |-> result[t],
                                before |-> local[t].before]
                          ELSE NoPrev,
                 ops |-> local[t].ops + 1]]
        /\ IF c.op \in UpdateOps /\ c.arg.sheet_row = NoRow
           THEN /\ pc' = [pc EXCEPT ![t] = "done"]
                /\ result' = [result EXCEPT ![t] = Failed("ValueError")]
           ELSE /\ pc' = [pc EXCEPT ![t] =
                        IF TakesSpreadsheet(c.op) THEN "lookup" ELSE "open"]
                /\ result' = [result EXCEPT ![t] = NoResult]
    /\ UNCHANGED <<file, lock, clock, book, conv, user_data, run, prompt>>

\* a call of the backend raises err and the method lets it out as it is, or
\* wrapped: the method ends
Fails(t, err) ==
    /\ pc' = [pc EXCEPT ![t] = "done"]
    /\ result' = [result EXCEPT ![t] = Failed(err)]
    /\ UNCHANGED <<file, lock, clock, call, local, book, conv, user_data, run, prompt>>

\* open_spreadsheet: client.open_by_key(sheet_id)
Open(t) ==
    /\ pc[t] = "open"
    /\ \/ Fails(t, "SheetNotFoundError")
       \/ /\ IF call[t].op = "open_spreadsheet"
             THEN /\ pc' = [pc EXCEPT ![t] = "done"]
                  /\ result' = [result EXCEPT ![t] = Returned("spreadsheet")]
             ELSE /\ pc' = [pc EXCEPT ![t] = "lookup"]
                  /\ UNCHANGED result
          /\ UNCHANGED <<file, lock, clock, call, local, book, conv, user_data, run, prompt>>

\* the step of a method after ensure_worksheet_exists gave it the worksheet
AfterEnsure(op) ==
    CASE op \in ListOps \cup {"get_setting", "set_setting"} -> "scan"
      [] op \in AddOps \cup {"log_event"} -> "append"
      [] OTHER -> "cell"

\* the loop of ensure_all_worksheets ends after the i-th name, one name early
last_worksheet_early(i) == i >= Len(WorksheetNames) - 1

\* the loop of ensure_all_worksheets ends after the i-th name
last_worksheet(i) == i >= Len(WorksheetNames)

\* ensure_worksheet_exists returns the worksheet
EnsureReturns(t) ==
    LET op == call[t].op
        name == local[t].name
        i == local[t].i
        handles == local[t].handles \cup {name}
    IN CASE op = "ensure_worksheet_exists" ->
              /\ pc' = [pc EXCEPT ![t] = "done"]
              /\ result' = [result EXCEPT ![t] = Returned(name)]
              /\ UNCHANGED local
         [] op = "ensure_all_worksheets" ->
              IF last_worksheet(i)
              THEN /\ pc' = [pc EXCEPT ![t] = "done"]
                   /\ result' = [result EXCEPT ![t] = Returned(handles)]
                   /\ local' = [local EXCEPT ![t].handles = handles]
              ELSE /\ pc' = [pc EXCEPT ![t] = "lookup"]
                   /\ local' = [local EXCEPT ![t].handles = handles,
                                             ![t].i = i + 1,
                                             ![t].name = WorksheetNames[i + 1]]
                   /\ UNCHANGED result
         [] OTHER ->
              /\ pc' = [pc EXCEPT ![t] = AfterEnsure(op)]
              /\ UNCHANGED <<local, result>>

\* ensure_worksheet_exists: spreadsheet.worksheet(worksheet_name); only
\* WorksheetNotFound is caught
Lookup(t) ==
    /\ pc[t] = "lookup"
    /\ \/ Fails(t, "APIError")
       \/ /\ has_worksheet(book, local[t].name)
          /\ EnsureReturns(t)
          /\ UNCHANGED <<file, lock, clock, call, book, conv, user_data, run, prompt>>
       \/ /\ ~has_worksheet(book, local[t].name)
          /\ pc' = [pc EXCEPT ![t] = "create"]
          /\ UNCHANGED <<file, lock, clock, call, local, result, book, conv, user_data, run, prompt>>

\* ensure_worksheet_exists: spreadsheet.add_worksheet(title=worksheet_name);
\* the backend refuses a title that is taken
Create(t) ==
    /\ pc[t] = "create"
    /\ \/ Fails(t, "WorksheetNotFoundError")
       \/ /\ local[t].name \notin DOMAIN book
          /\ book' = add_worksheet(book, local[t].name)
          /\ IF HeadersOf(local[t].name) # <<>>
             THEN /\ pc' = [pc EXCEPT ![t] = "header"]
                  /\ UNCHANGED <<local, result>>
             ELSE EnsureReturns(t)
          /\ UNCHANGED <<file, lock, clock, call, conv, user_data, run, prompt>>

\* ensure_worksheet_exists: worksheet.append_row(headers)
Header(t) ==
    /\ pc[t] = "header"
    /\ \/ Fails(t, "WorksheetNotFoundError")
       \/ /\ book' = [book EXCEPT ![local[t].name] =
                        append_row(@, HeadersOf(local[t].name))]
          /\ EnsureReturns(t)
          /\ UNCHANGED <<file, lock, clock, call, conv, user_data, run, prompt>>

\* worksheet.get_all_values() and the loop over rows[1:]
Scan(t) ==
    /\ pc[t] = "scan"
    /\ \/ Fails(t, "APIError")
       \/ LET rows == get_all_values(book[local[t].name])
              op == call[t].op
          IN /\ CASE op \in ListOps ->
                      /\ pc' = [pc EXCEPT ![t] = "done"]
                      /\ result' = [result EXCEPT ![t] =
                                        Returned(get_all(KindOf(op), rows))]
                      /\ UNCHANGED local
                  [] op = "get_setting" ->
                      /\ pc' = [pc EXCEPT ![t] = "done"]
                      /\ result' = [result EXCEPT ![t] =
                                        Returned(get_setting(rows, call[t].arg.key))]
                      /\ UNCHANGED local
                  [] OTHER ->
                      LET idx == find_setting(rows, call[t].arg.key)
                      IN /\ pc' = [pc EXCEPT ![t] =
                                    IF idx # 0 THEN "cell" ELSE "append"]
                         /\ local' = [local EXCEPT ![t].i = idx]
                         /\ UNCHANGED result
             /\ UNCHANGED <<file, lock, clock, call, book, conv, user_data, run, prompt>>

\* the row a method appends
RowToAppend(c, now) ==
    CASE c.op \in AddOps -> to_row(KindOf(c.op), c.arg)
      [] c.op = "log_event" -> <<isoformat(now), c.arg.event, c.arg.detail>>
      [] OTHER -> <<c.arg.key, c.arg.value>>

\* worksheet.append_row(...)
AppendRow(t) ==
    /\ pc[t] = "append"
    /\ \/ Fails(t, "APIError")
       \/ /\ book' = [book EXCEPT ![local[t].name] =
                        append_row(@, RowToAppend(call[t], clock))]
          /\ pc' = [pc EXCEPT ![t] = "done"]
          /\ result' = [result EXCEPT ![t] = Returned(None)]
          /\ UNCHANGED <<file, lock, clock, call, local, conv, user_data, run, prompt>>

\* update_X looks for the row that holds the record's first field
row_by_key(rows, x, key) ==
    LET hits == {i \in 2..Len(rows) : CellAt(rows, i, 1) = key}
    IN IF hits = {} THEN x.sheet_row ELSE CHOOSE i \in hits : \A j \in hits : i <= j

\* the row update_X writes: the record's sheet_row, whatever the table holds
row_to_update(rows, x, key) == x.sheet_row

\* worksheet.update_cell(row, col, value): set_setting writes the value cell
\* of the row it found, update_X the cells of x.to_row() one after the other.
\* The backend refuses a row below 1 before it sends anything
Cell(t) ==
    /\ pc[t] = "cell"
    /\ LET settings == call[t].op = "set_setting"
           col == IF settings THEN 2 ELSE local[t].i
           row_data == IF settings THEN <<call[t].arg.key, call[t].arg.value>>
                       ELSE to_row(KindOf(call[t].op), call[t].arg)
           row == IF settings THEN local[t].i
                  ELSE row_to_update(book[local[t].name], call[t].arg, row_data[1])
       IN \/ Fails(t, IF row < 1 THEN "IncorrectCellLabel" ELSE "APIError")
          \/ /\ row >= 1
             /\ book' = [book EXCEPT ![local[t].name] =
                            update_cell(@, row, col, row_data[col])]
             /\ IF settings \/ col >= Len(row_data)
                THEN /\ pc' = [pc EXCEPT ![t] = "done"]
                     /\ result' = [result EXCEPT ![t] = Returned(None)]
                     /\ UNCHANGED local
                ELSE /\ local' = [local EXCEPT ![t].i = col + 1]
                     /\ UNCHANGED <<pc, result>>
             /\ UNCHANGED <<file, lock, clock, call, conv, user_data, run, prompt>>

\* a spreadsheet of worksheets with the given rows
InitSheets(books) ==
    /\ file = EmptyRegistry
    /\ lock = [i \in {"db1"} |-> Free]
    /\ clock = 0
    /\ book \in books
    /\ NoBot
    /\ pc = [t \in {"main"} |-> "idle"]
    /\ call = [t \in {"main"} |-> NoSheetCall]
    /\ local = [t \in {"main"} |-> NoFrame]
    /\ result = [t \in {"main"} |-> NoResult]

-----------------------------------------------------------------------------
(* RecordSpec: one caller lists, adds and updates students, lessons and     *)
(* payments in a spreadsheet whose worksheet is absent, empty, holds its    *)
(* header only, or holds data rows after a blank row, after a row with the  *)
(* first cell only, or after a row without its first cell                   *)

ListOp(kind) ==
    CASE kind = "Student" -> "get_all_students"
      [] kind = "Lesson" -> "get_all_lessons"
      [] OTHER -> "get_all_payments"
AddOp(kind) ==
    CASE kind = "Student" -> "add_student"
      [] kind = "Lesson" -> "add_lesson"
      [] OTHER -> "add_payment"
UpdateOp(kind) ==
    CASE kind = "Student" -> "update_student"
      [] kind = "Lesson" -> "update_lesson"
      [] OTHER -> "update_payment"

\* a record of each kind, as a handler builds it: sheet_row is sheet_row
NewRecord(kind, sheet_row) ==
    CASE kind = "Student" -> Student("Oleg", None, "o@x.com", None, None, sheet_row)
      [] kind = "Lesson" ->
            Lesson("Oleg", "2024-01-15", "10:00", None, None, None, sheet_row)
      [] OTHER -> Payment("Oleg", "500", "2024-01-15", None, None, sheet_row)

\* a data row of each kind as the backend holds it
DataRow(kind) ==
    CASE kind = "Student" -> <<"Anna", "", "a@x.com", "", "first">>
      [] kind = "Lesson" -> <<"Anna", "2024-01-10", "", "60">>
      [] OTHER -> <<"Anna", "300", "2024-01-10", "cash">>

InitialRows(kind) ==
    LET header == HeadersOf(TableOf(kind))
    IN {<<>>,
        <<header>>,
        <<header, <<>>, DataRow(kind)>>,
        <<header, <<"Ira">>, DataRow(kind)>>,
        <<header, <<"", "2024-01-12">>, DataRow(kind)>>}

RecordBooks ==
    {NoBook} \cup
    UNION {{[n \in {TableOf(kind)} |-> rows] : rows \in InitialRows(kind)} :
                kind \in Kinds}

\* update_X(sheet_id, x) for a record x of the caller's last get_all_X, with
\* new notes
UpdatesOfListed(t) ==
    IF pc[t] = "done" /\ call[t].op \in ListOps /\ result[t].err = "ok"
    THEN {SheetCallOf(UpdateOp(KindOf(call[t].op)), call[t].name,
                      [result[t].val[j] EXCEPT !.notes = "moved"]) :
                j \in DOMAIN result[t].val}
    ELSE {}

RecordCalls(t) ==
    UpdatesOfListed(t) \cup
    UNION {{SheetCallOf(ListOp(kind), TableOf(kind), NoArg),
            SheetCallOf(AddOp(kind), TableOf(kind), NewRecord(kind, NoRow)),
            SheetCallOf(UpdateOp(kind), TableOf(kind), NewRecord(kind, NoRow)),
            SheetCallOf(UpdateOp(kind), TableOf(kind), NewRecord(kind, 0))} :
                kind \in Kinds}

RecordInit == InitSheets(RecordBooks)

RecordNext ==
    \/ \E t \in DOMAIN pc : SheetCall(t, RecordCalls(t))
    \/ \E t \in DOMAIN pc : Open(t)
    \/ \E t \in DOMAIN pc : Lookup(t)
    \/ \E t \in DOMAIN pc : Create(t)
    \/ \E t \in DOMAIN pc : Header(t)
    \/ \E t \in DOMAIN pc : Scan(t)
    \/ \E t \in DOMAIN pc : AppendRow(t)
    \/ \E t \in DOMAIN pc : Cell(t)

RecordSpec == RecordInit /\ [][RecordNext]_vars

\* the data rows of a worksheet: the rows after the first whose first cell is
\* not empty
DataRows(rows) == {i \in 2..Len(rows) : CellAt(rows, i, 1) # ""}

\* val is, in the order of the rows, one record for each data row, decoded
\* from that row and carrying its number
ListsDataRows(kind, rows, val) ==
    /\ Len(val) = Cardinality(DataRows(rows))
    /\ \A j \in DOMAIN val :
        /\ val[j].sheet_row \in DataRows(rows)
        /\ val[j] = from_row(kind, get_all_values(rows)[val[j].sheet_row],
                             val[j].sheet_row)
    /\ \A j, k \in DOMAIN val : j < k => val[j].sheet_row < val[k].sheet_row

\* rows is old with the first cells of the row at row replaced by row_data
Overwritten(old, rows, row, row_data) ==
    \A r \in 1..(Max(Len(old), Len(rows)) + 1) :
        \A c \in 1..(Max(Width(old), Width(rows)) + 1) :
            CellAt(rows, r, c) =
                IF r = row /\ c <= Len(row_data) THEN row_data[c]
                ELSE CellAt(old, r, c)

\* C12: get_all_X returns, in table order, one record per data row (first
\* cell non-empty, header excluded), and each record's sheet_row identifies
\* the row it was decoded from: update_X of a listed record, made right after
\* the list, overwrites that row's cells and no other row, also when blank
\* rows precede it.
C12_ListThenUpdate ==
    \A t \in DOMAIN pc : (pc[t] = "done" /\ result[t].err = "ok") =>
        LET op == call[t].op
            kind == KindOf(op)
            prev == local[t].prev
        IN /\ op \in ListOps =>
                ListsDataRows(kind, book[call[t].name], result[t].val)
           /\ (op \in UpdateOps /\ prev.call.op = ListOp(kind)
                    /\ prev.result.err = "ok") =>
                /\ \E j \in DOMAIN prev.result.val :
                    /\ prev.result.val[j].sheet_row = call[t].arg.sheet_row
                    /\ prev.result.val[j] =
                        from_row(kind,
                            get_all_values(local[t].before[call[t].name])
                                [call[t].arg.sheet_row],
                            call[t].arg.sheet_row)
                /\ Overwritten(local[t].before[call[t].name],
                               book[call[t].name], call[t].arg.sheet_row,
                               to_row(kind, call[t].arg))

C12_Witness ==
    \E t \in DOMAIN pc :
        /\ pc[t] = "done" /\ result[t].err = "ok"
        /\ call[t].op = "update_lesson"
        /\ local[t].prev.call.op = "get_all_lessons"
        /\ call[t].arg.sheet_row = 3
        /\ local[t].before["Lessons"][2] = <<>>
        /\ book["Lessons"][3] = <<"Anna", "2024-01-10", "", "60", "", "moved">>

\* the number of leading fields a record kind declares without a default
NumRequired(kind) ==
    CASE kind = "Student" -> 1
      [] kind = "Lesson" -> 2
      [] OTHER -> 3

\* a row that is not blank and lacks a required field of the kind
Undecodable(kind, row) ==
    /\ row # <<>>
    /\ \E c \in 1..NumRequired(kind) : CellAt(<<row>>, 1, c) = ""

\* C13: a list call never silently omits or defaults data: when a non-blank
\* data row cannot be decoded into its record kind, the call fails with
\* MalformedDataError; so a list call that returns has seen no such row.
C13_BadRowFails ==
    \A t \in DOMAIN pc :
        (pc[t] = "done" /\ call[t].op \in ListOps /\ result[t].err = "ok") =>
            \A i \in 2..Len(book[call[t].name]) :
                ~Undecodable(KindOf(call[t].op), book[call[t].name][i])

\* the worksheet has no data rows: it is absent, has no rows at all, or holds
\* only its header
NoData(bk, name) ==
    \/ name \notin DOMAIN bk
    \/ bk[name] = <<>>
    \/ bk[name] = <<HeadersOf(name)>>

\* C14: on a Students table without data rows get_all_students returns the
\* empty sequence, and add_student(s) followed by get_all_students returns
\* exactly one record, whose fields equal those of s.
C14_AddThenList ==
    \A t \in DOMAIN pc :
        (pc[t] = "done" /\ call[t].op = "get_all_students"
                /\ result[t].err = "ok") =>
            LET prev == local[t].prev
            IN /\ NoData(local[t].before, "Students") => result[t].val = <<>>
               /\ (prev.call.op = "add_student" /\ prev.result.err = "ok"
                        /\ NoData(prev.before, "Students")) =>
                    /\ Len(result[t].val) = 1
                    /\ [result[t].val[1] EXCEPT !.sheet_row = NoRow]
                            = prev.call.arg

\* C15: update_X fails before any backend call, the table unchanged, for a
\* record whose sheet_row is unset (None) or is the decoder's default 0.
C15_UpdateNeedsPosition ==
    \A t \in DOMAIN pc :
        (call[t].op \in UpdateOps /\ call[t].arg.sheet_row \in {NoRow, 0}) =>
            /\ pc[t] = "done"
            /\ result[t].err = "ValueError"
            /\ book = local[t].before

-----------------------------------------------------------------------------
(* TableSpec: one caller opens the spreadsheet, ensures single worksheets   *)
(* (two declared names and one without declared header), ensures all, and   *)
(* adds a student, on spreadsheets holding some, none or all worksheets     *)

\* a worksheet as ensure_worksheet_exists creates it
CreatedRows(name) == IF HeadersOf(name) # <<>> THEN <<HeadersOf(name)>> ELSE <<>>

TableBooks ==
    {[n \in S |-> CreatedRows(n)] : S \in SUBSET {"Students", "History", "Archive"}}
    \cup {[n \in DOMAIN WORKSHEET_HEADERS |->
                IF n = "Students" THEN <<HeadersOf(n), DataRow("Student")>>
                ELSE CreatedRows(n)]}

TableCalls ==
    {SheetCallOf("ensure_worksheet_exists", name, NoArg) :
            name \in {"Students", "Settings", "Archive"}}
    \cup {SheetCallOf("ensure_all_worksheets", None, NoArg),
          SheetCallOf("open_spreadsheet", None, NoArg),
          SheetCallOf("add_student", "Students", NewRecord("Student", NoRow))}

TableInit == InitSheets(TableBooks)

TableNext ==
    \/ \E t \in DOMAIN pc : SheetCall(t, TableCalls)
    \/ \E t \in DOMAIN pc : Open(t)
    \/ \E t \in DOMAIN pc : Lookup(t)
    \/ \E t \in DOMAIN pc : Create(t)
    \/ \E t \in DOMAIN pc : Header(t)
    \/ \E t \in DOMAIN pc : AppendRow(t)

TableSpec == TableInit /\ [][TableNext]_vars

\* C16: ensure_worksheet_exists is idempotent: an absent table is created
\* with the declared header as its only row (no row when the name has no
\* declared header) and nothing else changes; on a table that exists it
\* changes nothing and attempts no creation; called again it returns the
\* same table and changes nothing.
C16_EnsureIdempotent ==
    \A t \in DOMAIN pc :
        (pc[t] = "done" /\ call[t].op = "ensure_worksheet_exists") =>
            LET name == call[t].name
                before == local[t].before
                prev == local[t].prev
                ok == result[t].err = "ok"
            IN /\ name \in DOMAIN before =>
                    /\ book = before
                    /\ result[t].err # "WorksheetNotFoundError"
               /\ (name \notin DOMAIN before /\ ok) =>
                    /\ DOMAIN book = DOMAIN before \cup {name}
                    /\ book[name] = IF name \in DOMAIN WORKSHEET_HEADERS
                                    THEN <<WORKSHEET_HEADERS[name]>> ELSE <<>>
                    /\ \A n \in DOMAIN before : book[n] = before[n]
               /\ (prev.call = call[t] /\ prev.result.err = "ok" /\ ok) =>
                    /\ book = before
                    /\ result[t].val = prev.result.val

C16_Witness ==
    \E t \in DOMAIN pc :
        /\ pc[t] = "done" /\ call[t].op = "ensure_worksheet_exists"
        /\ result[t].err = "ok"
        /\ local[t].prev.call = call[t] /\ local[t].prev.result.err = "ok"
        /\ call[t].name = "Settings"
        /\ "Settings" \notin DOMAIN local[t].prev.before
        /\ book["Settings"] = <<<<"Key", "Value">>>>

\* C17: ensure_all_worksheets returns a mapping whose keys are exactly the
\* five declared names, and when it returns all five tables exist.
C17_EnsureAll ==
    \A t \in DOMAIN pc :
        (pc[t] = "done" /\ call[t].op = "ensure_all_worksheets"
                /\ result[t].err = "ok") =>
            /\ result[t].val = DOMAIN WORKSHEET_HEADERS
            /\ Cardinality(result[t].val) = 5
            /\ DOMAIN WORKSHEET_HEADERS \subseteq DOMAIN book

C17_Witness ==
    \E t \in DOMAIN pc :
        /\ pc[t] = "done" /\ call[t].op = "ensure_all_worksheets"
        /\ result[t].err = "ok"
        /\ local[t].before = NoBook
        /\ DOMAIN book = DOMAIN WORKSHEET_HEADERS

\* C18: every failure to open the spreadsheet surfaces as SheetNotFoundError
\* and every backend failure while ensuring a table as
\* WorksheetNotFoundError: open_spreadsheet, ensure_worksheet_exists and
\* ensure_all_worksheets end with no other error.
C18_FailuresWrapped ==
    \A t \in DOMAIN pc : pc[t] = "done" =>
        /\ call[t].op = "open_spreadsheet" =>
                result[t].err \in {"ok", "SheetNotFoundError"}
        /\ call[t].op \in {"ensure_worksheet_exists", "ensure_all_worksheets"} =>
                result[t].err \in {"ok", "WorksheetNotFoundError"}

-----------------------------------------------------------------------------
(* SettingsSpec: one caller reads and writes settings and logs events, on   *)
(* spreadsheets whose Settings and History worksheets are absent, without   *)
(* rows, with the header only, or with rows (a key twice, a key alone)      *)

SettingsRows ==
    {<<>>,
     <<HeadersOf("Settings")>>,
     <<HeadersOf("Settings"), <<"lang", "ru">>>>,
     <<HeadersOf("Settings"), <<"lang", "ru">>, <<"tz", "utc">>, <<"lang", "en">>>>,
     <<HeadersOf("Settings"), <<"lang">>>>}

HistoryRows ==
    {<<>>,
     <<HeadersOf("History")>>,
     <<HeadersOf("History"), <<"0", "start">>>>}

SettingsBooks ==
    {NoBook}
    \cup {[n \in {"Settings"} |-> s] : s \in SettingsRows}
    \cup {[n \in {"History"} |-> h] : h \in HistoryRows}
    \cup {[n \in {"Settings", "History"} |-> IF n = "Settings" THEN s ELSE h] :
                s \in SettingsRows, h \in HistoryRows}

SettingsCalls ==
    {SheetCallOf("get_setting", "Settings", [key |-> k]) : k \in {"lang", "tz"}}
    \cup {SheetCallOf("set_setting", "Settings", [key |-> k, value |-> v]) :
                k \in {"lang", "tz"}, v \in {"de", ""}}
    \cup {SheetCallOf("log_event", "History", [event |-> "login", detail |-> d]) :
                d \in {"", "tutor 1001"}}

SettingsInit == InitSheets(SettingsBooks)

SettingsNext ==
    \/ \E t \in DOMAIN pc : SheetCall(t, SettingsCalls)
    \/ \E t \in DOMAIN pc : Open(t)
    \/ \E t \in DOMAIN pc : Lookup(t)
    \/ \E t \in DOMAIN pc : Create(t)
    \/ \E t \in DOMAIN pc : Header(t)
    \/ \E t \in DOMAIN pc : Scan(t)
    \/ \E t \in DOMAIN pc : AppendRow(t)
    \/ \E t \in DOMAIN pc : Cell(t)
    \/ Tick

SettingsSpec == SettingsInit /\ [][SettingsNext]_vars

\* C19: set_setting is an upsert: set_setting(k, v) makes the get_setting(k)
\* that follows it return v.
C19_SetThenGet ==
    \A t \in DOMAIN pc :
        LET prev == local[t].prev
        IN (pc[t] = "done" /\ call[t].op = "get_setting" /\ result[t].err = "ok"
                /\ prev.call.op = "set_setting" /\ prev.result.err = "ok"
                /\ prev.call.arg.key = call[t].arg.key) =>
            result[t].val = prev.call.arg.value

-----------------------------------------------------------------------------
(* Message texts and the validators of src/utils/validators.py.  A text is *)
(* its words, whether the gaps between them are wider than one space       *)
(* (wide), and whether whitespace surrounds it (padded).                   *)

Text(words, wide, padded) == [words |-> words, wide |-> wide, padded |-> padded]

RECURSIVE JoinWords(_, _)
JoinWords(words, gap) ==
    IF words = <<>> THEN ""
    ELSE IF Len(words) = 1 THEN words[1]
    ELSE words[1] \o gap \o JoinWords(Tail(words), gap)

\* the string a text is
Render(s) ==
    LET pad == IF s.padded THEN " " ELSE ""
    IN pad \o JoinWords(s.words, IF s.wide THEN "  " ELSE " ") \o pad

\* str.strip()
strip(s) == Text(s.words, s.wide /\ Len(s.words) > 1, FALSE)

\* " ".join(args)
join(args) == Text(args, FALSE, FALSE)

SheetUrl == "https://docs.google.com/spreadsheets/d/1ABC2DEF/edit"
UrlId == "1ABC2DEF"
LongId == "1ABC_2DEF_GHI4"

\* the words that have a character outside [a-zA-Zа-яА-ЯёЁ0-9\s\-']
NotNameWords == {"Iv@n", LongId, SheetUrl}
\* the words that have a character outside [a-zA-Z0-9-_]
NotIdWords == {"Iv@n", "O'Neil", SheetUrl}
\* the words docs\.google\.com/spreadsheets/d/([a-zA-Z0-9-_]+) is found in
UrlWords == {SheetUrl}

\* sanitize_name that only strips
sanitize_name_strip_only(name) == Render(strip(name))

\* sanitize_name: ' '.join(name.strip().split())
sanitize_name(name) == Render(join(name.words))

validate_name(name) ==
    LET n == strip(name)
    IN /\ n.words # <<>>
       /\ Len(Render(n)) >= 2
       /\ Len(Render(n)) <= 100
       /\ \A i \in DOMAIN n.words : n.words[i] \notin NotNameWords

\* extract_sheet_id: the id inside a URL, or the input that looks like an id
extract_sheet_id(input_string) ==
    LET s == strip(input_string)
        urls == {i \in DOMAIN s.words : s.words[i] \in UrlWords}
    IN IF urls # {} THEN UrlId
       ELSE IF Len(s.words) = 1 /\ s.words[1] \notin NotIdWords
                /\ Len(Render(s)) > 10
            THEN Render(s)
       ELSE None

-----------------------------------------------------------------------------
(* The conversations of src/handlers/auth.py and src/handlers/students.py. *)
(* An update is a message of a user: a command with its arguments, or a    *)
(* text that is no command.  The message names stand for utils.messages.   *)

Update(user, command, text) == [user |-> user, command |-> command, text |-> text]
NoUpdate == Update(None, None, Text(<<>>, FALSE, FALSE))

Flows == <<"register", "add_student", "delete_student">>
END == "END"

\* entry_points of the three ConversationHandlers
EntryPoint ==
    [register |-> "register_start", add_student |-> "add_student_start",
     delete_student |-> "delete_student_start"]

\* the state each handler of a Collecting state collects, and the next state
NextState ==
    [AWAITING_NAME |-> "AWAITING_SHEET",
     ADD_AWAITING_PARENT |-> "ADD_AWAITING_STUDENT",
     ADD_AWAITING_STUDENT |-> "ADD_AWAITING_COST",
     DEL_AWAITING_PARENT |-> "DEL_AWAITING_STUDENT",
     DEL_AWAITING_STUDENT |-> "DEL_AWAITING_CONFIRM"]

\* the commands whose text starts with "/" and the word
CommandsStarting(word) ==
    CASE word = "confirm" -> {"confirm", "confirmation"}
      [] word = "cancel" -> {"cancel", "cancellation"}
      [] OTHER -> {word}

\* states[state] and fallbacks of the ConversationHandlers: the callback of
\* the first handler that accepts the update, or None
StateHandler(state, upd) ==
    LET text == upd.command = None      \* filters.TEXT & ~filters.COMMAND
        cancel == upd.command = "cancel"
    IN CASE state = "AWAITING_NAME" ->
                IF text THEN "register_name"
                ELSE IF cancel THEN "register_cancel" ELSE None
         [] state = "AWAITING_SHEET" ->
                IF text THEN "register_sheet"
                ELSE IF cancel THEN "register_cancel" ELSE None
         [] state = "ADD_AWAITING_PARENT" ->
                IF text THEN "add_student_parent"
                ELSE IF cancel THEN "add_student_cancel" ELSE None
         [] state = "ADD_AWAITING_STUDENT" ->
                IF text THEN "add_student_student"
                ELSE IF cancel THEN "add_student_cancel" ELSE None
         [] state = "ADD_AWAITING_COST" ->
                IF text THEN "add_student_cost"
                ELSE IF cancel THEN "add_student_cancel" ELSE None
         [] state = "DEL_AWAITING_PARENT" ->
                IF text THEN "delete_student_parent"
                ELSE IF cancel THEN "delete_student_cancel" ELSE None
         [] state = "DEL_AWAITING_STUDENT" ->
                IF text THEN "delete_student_student"
                ELSE IF cancel THEN "delete_student_cancel" ELSE None
         [] state = "DEL_AWAITING_CONFIRM" ->
                IF upd.command = "confirm" THEN "delete_student_confirm"
                ELSE IF cancel THEN "delete_student_cancel"
                ELSE "delete_student_confirm"       \* filters.TEXT
         [] OTHER -> None

\* ConversationHandler.check_update with allow_reentry=True
check_update_reentry(flow, state, upd) ==
    IF upd.command = flow THEN EntryPoint[flow]
    ELSE IF state = END THEN None
    ELSE StateHandler(state, upd)

\* ConversationHandler.check_update with allow_reentry=False: the entry
\* points are looked at only when the user is in no conversation of the flow
check_update(flow, state, upd) ==
    IF state = END
    THEN IF upd.command = flow THEN EntryPoint[flow] ELSE None
    ELSE StateHandler(state, upd)

Target(flow, handler) == [flow |-> flow, handler |-> handler]

\* Application.process_update: the first handler, in the order in which
\* setup_auth_handlers and setup_student_handlers add them, that accepts
Dispatch(cv, upd) ==
    IF check_update("register", cv.register, upd) # None
    THEN Target("register", check_update("register", cv.register, upd))
    ELSE IF upd.command = "help" THEN Target(None, "help_command")
    ELSE IF check_update("add_student", cv.add_student, upd) # None
    THEN Target("add_student", check_update("add_student", cv.add_student, upd))
    ELSE IF check_update("delete_student", cv.delete_student, upd) # None
    THEN Target("delete_student",
                check_update("delete_student", cv.delete_student, upd))
    ELSE Target(None, None)

\* context.user_data of a user: None stands for a key that is absent
UserDataKeys == {"name", "sheets_id", "parent_name", "student_name"}
EmptyUserData == [k \in UserDataKeys |-> None]

Invocation(op, args) == [op |-> op, args |-> args]
NoInvocation == Invocation("none", <<>>)

\* What a callback does up to its return or its first remote call: the state
\* it returns (to), context.user_data, the messages it replies with and the
\* remote call it makes
Ends(to, data, replies) ==
    [to |-> to, data |-> data, replies |-> replies, invoke |-> NoInvocation]
Invokes(data, replies, op, args) ==
    [to |-> None, data |-> data, replies |-> replies,
     invoke |-> Invocation(op, args)]

\* update.message.text of the update
message_text(upd) == upd.text

\* context.args of a command
context_args(upd) == upd.text.words

\* `not x` of a string or None
Falsy(x) == x \in {None, ""}

\* tutors_db.get_tutor(telegram_id) of the handlers
GetTutor(f, telegram_id, now) ==
    RunOp(f, CallOf("get", "db1", telegram_id, None, None, EmptyKwargs), now)

register_start(from, telegram_id, data, f, now) ==
    LET r == GetTutor(f, telegram_id, now)
    IN CASE r.err = "ok" -> Ends(END, data, <<"REGISTER_ALREADY_REGISTERED">>)
         [] r.err = "TutorNotFoundError" ->
                Ends("AWAITING_NAME", data, <<"REGISTER_ASK_NAME">>)
         [] OTHER -> Ends(from, data, <<>>)

register_name(upd, data) ==
    LET name == strip(message_text(upd))
    IN IF ~validate_name(name)
       THEN Ends("AWAITING_NAME", data,
                 <<"ERROR_INVALID_INPUT", "REGISTER_ASK_NAME">>)
       ELSE Ends("AWAITING_SHEET", [data EXCEPT !.name = sanitize_name(name)],
                 <<"REGISTER_ASK_SHEET">>)

register_sheet(upd, data) ==
    LET sheet_id == extract_sheet_id(strip(message_text(upd)))
    IN IF Falsy(sheet_id)
       THEN Ends("AWAITING_SHEET", data, <<"REGISTER_INVALID_SHEET">>)
       ELSE Invokes(data, <<"REGISTER_PROCESSING">>, "open_spreadsheet",
                    <<sheet_id>>)

register_cancel(data) == Ends(END, data, <<"REGISTER_CANCELLED">>)

\* _check_registration: the sheets id of the tutor, and the reply
check_registration(f, telegram_id, now) ==
    LET r == GetTutor(f, telegram_id, now)
    IN IF r.err = "ok" THEN [sheets_id |-> r.val.sheets_id, replies |-> <<>>]
       ELSE [sheets_id |-> None, replies |-> <<"PROFILE_NOT_REGISTERED">>]

\* args[:-n] of a list of words
ButLast(args, n) == SubSeq(args, 1, Len(args) - n)

add_student_start(upd, telegram_id, data, f, now) ==
    LET reg == check_registration(f, telegram_id, now)
        args == context_args(upd)
    IN IF Falsy(reg.sheets_id) THEN Ends(END, data, reg.replies)
       ELSE IF Len(args) >= 3
       THEN Invokes(data, <<>>, "add_student_record",
                    <<reg.sheets_id, sanitize_name(join(ButLast(args, 2))),
                      sanitize_name(join(<<args[Len(args) - 1]>>)),
                      args[Len(args)]>>)
       ELSE Ends("ADD_AWAITING_PARENT",
                 [data EXCEPT !.sheets_id = reg.sheets_id],
                 <<"ADD_STUDENT_PROMPT_PARENT">>)

add_student_parent(upd, data) ==
    LET parent_name == sanitize_name(strip(message_text(upd)))
    IN IF Falsy(parent_name)
       THEN Ends("ADD_AWAITING_PARENT", data,
                 <<"ERROR_INVALID_INPUT", "ADD_STUDENT_PROMPT_PARENT">>)
       ELSE Ends("ADD_AWAITING_STUDENT",
                 [data EXCEPT !.parent_name = parent_name],
                 <<"ADD_STUDENT_PROMPT_STUDENT">>)

add_student_student(upd, data) ==
    LET student_name == sanitize_name(strip(message_text(upd)))
    IN IF Falsy(student_name)
       THEN Ends("ADD_AWAITING_STUDENT", data,
                 <<"ERROR_INVALID_INPUT", "ADD_STUDENT_PROMPT_STUDENT">>)
       ELSE Ends("ADD_AWAITING_COST",
                 [data EXCEPT !.student_name = student_name],
                 <<"ADD_STUDENT_PROMPT_COST">>)

\* context.user_data.get(key, default)
UserDataGet(data, key, default) == IF data[key] = None THEN default ELSE data[key]

add_student_cost(upd, data) ==
    LET lesson_cost == Render(strip(message_text(upd)))
    IN IF Falsy(lesson_cost)
       THEN Ends("ADD_AWAITING_COST", data,
                 <<"ERROR_INVALID_INPUT", "ADD_STUDENT_PROMPT_COST">>)
       ELSE Invokes(data, <<>>, "add_student_record",
                    <<UserDataGet(data, "sheets_id", None),
                      UserDataGet(data, "parent_name", ""),
                      UserDataGet(data, "student_name", ""), lesson_cost>>)

add_student_cancel(data) == Ends(END, data, <<"ADD_STUDENT_CANCELLED">>)

delete_student_start(upd, telegram_id, data, f, now) ==
    LET reg == check_registration(f, telegram_id, now)
        args == context_args(upd)
    IN IF Falsy(reg.sheets_id) THEN Ends(END, data, reg.replies)
       ELSE IF Len(args) >= 2
       THEN Invokes(data, <<>>, "delete_student_record",
                    <<reg.sheets_id, sanitize_name(join(ButLast(args, 1))),
                      sanitize_name(join(<<args[Len(args)]>>))>>)
       ELSE Ends("DEL_AWAITING_PARENT",
                 [data EXCEPT !.sheets_id = reg.sheets_id],
                 <<"DELETE_STUDENT_PROMPT_PARENT">>)

delete_student_parent(upd, data) ==
    LET parent_name == sanitize_name(strip(message_text(upd)))
    IN IF Falsy(parent_name)
       THEN Ends("DEL_AWAITING_PARENT", data,
                 <<"ERROR_INVALID_INPUT", "DELETE_STUDENT_PROMPT_PARENT">>)
       ELSE Ends("DEL_AWAITING_STUDENT",
                 [data EXCEPT !.parent_name = parent_name],
                 <<"DELETE_STUDENT_PROMPT_STUDENT">>)

delete_student_student(upd, data) ==
    LET student_name == sanitize_name(strip(message_text(upd)))
    IN IF Falsy(student_name)
       THEN Ends("DEL_AWAITING_STUDENT", data,
                 <<"ERROR_INVALID_INPUT", "DELETE_STUDENT_PROMPT_STUDENT">>)
       ELSE Ends("DEL_AWAITING_CONFIRM",
                 [data EXCEPT !.student_name = student_name],
                 <<"DELETE_STUDENT_CONFIRMATION">>)

\* user_input.startswith("/" + word) of the lowered, stripped message text
startswith(upd, word) == upd.command \in CommandsStarting(word)

\* the test of delete_student_confirm were user_input == "/confirm"
confirms_exactly(upd) == upd.command = "confirm" /\ context_args(upd) = <<>>

confirms(upd) == startswith(upd, "confirm")

delete_student_confirm(upd, data) ==
    IF confirms(upd)
    THEN Invokes(data, <<>>, "delete_student_record",
                 <<UserDataGet(data, "sheets_id", None),
                   UserDataGet(data, "parent_name", ""),
                   UserDataGet(data, "student_name", "")>>)
    ELSE IF startswith(upd, "cancel")
    THEN Ends(END, data, <<"DELETE_STUDENT_CANCELLED">>)
    ELSE Ends("DEL_AWAITING_CONFIRM", data, <<"DELETE_STUDENT_CONFIRMATION">>)

delete_student_cancel(data) == Ends(END, data, <<"DELETE_STUDENT_CANCELLED">>)

help_command(from, data) == Ends(from, data, <<"HELP_MESSAGE">>)

\* the callback runs
Callback(handler, from, upd, data, f, now) ==
    CASE handler = "register_start" ->
            register_start(from, upd.user, data, f, now)
      [] handler = "register_name" -> register_name(upd, data)
      [] handler = "register_sheet" -> register_sheet(upd, data)
      [] handler = "register_cancel" -> register_cancel(data)
      [] handler = "add_student_start" ->
            add_student_start(upd, upd.user, data, f, now)
      [] handler = "add_student_parent" -> add_student_parent(upd, data)
      [] handler = "add_student_student" -> add_student_student(upd, data)
      [] handler = "add_student_cost" -> add_student_cost(upd, data)
      [] handler = "add_student_cancel" -> add_student_cancel(data)
      [] handler = "delete_student_start" ->
            delete_student_start(upd, upd.user, data, f, now)
      [] handler = "delete_student_parent" -> delete_student_parent(upd, data)
      [] handler = "delete_student_student" -> delete_student_student(upd, data)
      [] handler = "delete_student_confirm" -> delete_student_confirm(upd, data)
      [] handler = "delete_student_cancel" -> delete_student_cancel(data)
      [] handler = "help_command" -> help_command(from, data)
      [] OTHER -> Ends(from, data, <<>>)        \* no handler takes the update

-----------------------------------------------------------------------------
(* The student table of the student flows.  The handlers call              *)
(* add_student_record, delete_student_record and get_student_records of    *)
(* SheetsManager, which src/database/sheets_manager.py does not define:    *)
(* the two that write are modelled from the specification's add and        *)
(* delete_by_match of a table keyed by parent name and student name, with  *)
(* a cost field.                                                           *)

StudentTable == "StudentAssignments"
StudentHeaders == <<"Parent", "Student", "Cost">>

\* the rows of the table, the header row first
StudentRows(bk) == IF StudentTable \in DOMAIN bk THEN bk[StudentTable] ELSE <<>>

WithStudentRows(bk, rows) ==
    [n \in DOMAIN bk \cup {StudentTable} |-> IF n = StudentTable THEN rows ELSE bk[n]]

\* the rows below the header whose key is (parent, student)
Matching(rows, parent, student) ==
    {i \in 2..Len(rows) : rows[i][1] = parent /\ rows[i][2] = student}

\* delete_by_match removing the last matching row
delete_last_match(rows, parent, student) ==
    LET hits == Matching(rows, parent, student)
    IN IF hits = {} THEN [deleted |-> FALSE, rows |-> rows]
       ELSE [deleted |-> TRUE,
             rows |-> Without(rows, CHOOSE i \in hits : \A j \in hits : i >= j)]

\* delete_by_match: the table without the first matching row, and whether a
\* row was deleted
delete_by_match(rows, parent, student) ==
    LET hits == Matching(rows, parent, student)
    IN IF hits = {} THEN [deleted |-> FALSE, rows |-> rows]
       ELSE [deleted |-> TRUE,
             rows |-> Without(rows, CHOOSE i \in hits : \A j \in hits : i <= j)]

delete_student_record(bk, parent, student) ==
    LET d == delete_by_match(StudentRows(bk), parent, student)
    IN [deleted |-> d.deleted,
        book |-> IF d.deleted THEN WithStudentRows(bk, d.rows) ELSE bk]

\* add: the table exists afterwards and the row is its last one; the add flow
\* reports a duplicate of the key (ValueError)
add_student_record(bk, parent, student, cost) ==
    LET rows == IF StudentRows(bk) = <<>> THEN <<StudentHeaders>> ELSE StudentRows(bk)
    IN IF Matching(rows, parent, student) # {}
       THEN [err |-> "ValueError", book |-> bk]
       ELSE [err |-> "ok",
             book |-> WithStudentRows(bk, append_row(rows, <<parent, student, cost>>))]

-----------------------------------------------------------------------------
(* The bot: Application.process_update takes one update at a time and runs *)
(* the callback to its end; the callbacks call the registry and the sheets *)
(* without await, so nothing else runs until the call returns.             *)

Bot == "bot"

\* the most student records the table is let to grow to
MaxRecords == 1

\* a remote call that returned, and how: "ok" or the name of the exception
Called(op, args, outcome) == [op |-> op, args |-> args, outcome |-> outcome]

\* run: the user and the command of the update taken last, the callback that
\* runs or ran for it (None when no handler takes the update), the
\* conversation it belongs to, the state it found and the state it returned,
\* its replies; and of a callback that makes remote calls the update, the
\* user_data it found, the remote call it waits for and the remote calls
\* that returned
Run(status, upd, kept, target, from, before, r) ==
    [status |-> status, user |-> upd.user, command |-> upd.command,
     update |-> kept, flow |-> target.flow, handler |-> target.handler,
     from |-> from, before |-> before, to |-> r.to, replies |-> r.replies,
     invoke |-> r.invoke, invoked |-> <<>>]
Idle ==
    Run("idle", NoUpdate, NoUpdate, Target(None, None), None, EmptyUserData,
        Ends(None, EmptyUserData, <<>>))

\* the conversations after a callback of the flow returned the state
Moved(cv, u, flow, to) ==
    IF flow = None THEN cv ELSE [cv EXCEPT ![u][flow] = to]

StudentCount(bk) == IF StudentRows(bk) = <<>> THEN 0 ELSE Len(StudentRows(bk)) - 1

\* no confirmation prompt is pending
NoPrompt == <<>>

\* the pair Messages.DELETE_STUDENT_CONFIRMATION.format is given
Shown(data) ==
    <<UserDataGet(data, "parent_name", ""), UserDataGet(data, "student_name", "")>>

\* the prompt of the user's deletion: a callback of the deletion that replies
\* with the confirmation shows the pair of user_data; the prompt is pending
\* as long as the deletion awaits its confirmation
Prompted(shown, cv, u, replies, data) ==
    [shown EXCEPT ![u] =
        IF cv[u]["delete_student"] # "DEL_AWAITING_CONFIRM" THEN NoPrompt
        ELSE IF \E k \in DOMAIN replies : replies[k] = "DELETE_STUDENT_CONFIRMATION"
        THEN Shown(data)
        ELSE @]

\* the callback has run to its return or to its remote call
Handled(upd, d, from, r) ==
    LET u == upd.user
    IN /\ r.invoke.op = "add_student_record" => StudentCount(book) < MaxRecords
       /\ user_data' = [user_data EXCEPT ![u] = r.data]
       /\ IF r.invoke.op = "none"
          THEN /\ conv' = Moved(conv, u, d.flow, r.to)
               /\ run' = Run("done", upd, NoUpdate, d, from, EmptyUserData, r)
               /\ prompt' = Prompted(prompt, conv', u, r.replies, r.data)
          ELSE /\ UNCHANGED <<conv, prompt>>
               /\ run' = Run("running", upd, upd, d, from, user_data[u], r)
       /\ IF r.invoke.op = "open_spreadsheet"
          THEN /\ pc' = [pc EXCEPT ![Bot] = "open"]
               /\ call' = [call EXCEPT ![Bot] =
                              SheetCallOf("open_spreadsheet", None, NoArg)]
               /\ local' = [local EXCEPT ![Bot] = [NoFrame EXCEPT !.before = book]]
               /\ result' = [result EXCEPT ![Bot] = NoResult]
          ELSE UNCHANGED <<pc, call, local, result>>
       /\ UNCHANGED <<file, lock, clock, book>>

\* the state of the conversation the update goes to
StateOf(cv, flow) == IF flow = None THEN None ELSE cv[flow]

\* an update arrives and its callback runs to its return or to its remote call
Receive(upd) ==
    /\ run.status # "running"
    /\ \E d \in {Dispatch(conv[upd.user], upd)} :
          \E r \in {Callback(d.handler, StateOf(conv[upd.user], d.flow), upd,
                             user_data[upd.user], file, clock)} :
             Handled(upd, d, StateOf(conv[upd.user], d.flow), r)

\* the callback returns the state
Returns(to, replies, called) ==
    /\ conv' = Moved(conv, run.user, run.flow, to)
    /\ prompt' = Prompted(prompt, conv', run.user, replies, user_data[run.user])
    /\ run' = [run EXCEPT !.status = "done", !.to = to,
                          !.replies = @ \o replies, !.invoke = NoInvocation,
                          !.invoked = @ \o called]

\* the frames of the calls of register_sheet are gone
Unwind ==
    /\ pc' = [pc EXCEPT ![Bot] = "idle"]
    /\ call' = [call EXCEPT ![Bot] = NoSheetCall]
    /\ local' = [local EXCEPT ![Bot] = NoFrame]
    /\ result' = [result EXCEPT ![Bot] = NoResult]

\* register_sheet after open_spreadsheet: ensure_all_worksheets(spreadsheet),
\* or the except clauses
SheetOpened ==
    /\ run.status = "running"
    /\ run.invoke.op = "open_spreadsheet"
    /\ pc[Bot] = "done"
    /\ LET err == result[Bot].err
           called == <<Called("open_spreadsheet", run.invoke.args, err)>>
       IN IF err = "ok"
          THEN /\ pc' = [pc EXCEPT ![Bot] = "lookup"]
               /\ call' = [call EXCEPT ![Bot] =
                              SheetCallOf("ensure_all_worksheets", None, NoArg)]
               /\ local' = [local EXCEPT ![Bot] =
                              [NoFrame EXCEPT !.name = WorksheetNames[1], !.i = 1,
                                              !.before = book]]
               /\ result' = [result EXCEPT ![Bot] = NoResult]
               /\ run' = [run EXCEPT
                            !.invoke = Invocation("ensure_all_worksheets",
                                                  <<"spreadsheet">>),
                            !.invoked = @ \o called]
               /\ UNCHANGED <<conv, prompt>>
          ELSE /\ Returns("AWAITING_SHEET",
                          IF err = "SheetNotFoundError"
                          THEN <<"REGISTER_SHEET_NOT_FOUND", "REGISTER_ASK_SHEET">>
                          ELSE <<"REGISTER_SHEET_ACCESS_ERROR", "REGISTER_ASK_SHEET">>,
                          called)
               /\ Unwind
    /\ UNCHANGED <<file, lock, clock, book, user_data>>

\* register_sheet calls register_tutor before ensure_all_worksheets returned
provisioned_never(err) == TRUE

\* register_sheet goes on to register_tutor
provisioned(err) == err = "ok"

\* register_sheet after ensure_all_worksheets: register_tutor(telegram_id,
\* name, sheets_id=sheet_id), or the except clauses
SheetsEnsured ==
    /\ run.status = "running"
    /\ run.invoke.op = "ensure_all_worksheets"
    /\ pc[Bot] = "done"
    /\ LET err == result[Bot].err
           u == run.user
           sheet_id == run.invoked[1].args[1]
           name == UserDataGet(user_data[u], "name", "Unknown")
           ensured == Called("ensure_all_worksheets", run.invoke.args, err)
           o == RunOp(file, CallOf("register", "db1", u, name, sheet_id,
                                   EmptyKwargs), clock)
           registered == Called("register_tutor", <<u, name, sheet_id>>, o.err)
       IN IF ~provisioned(err)
          THEN /\ Returns("AWAITING_SHEET",
                          <<"REGISTER_SHEET_ACCESS_ERROR", "REGISTER_ASK_SHEET">>,
                          <<ensured>>)
               /\ UNCHANGED file
          ELSE /\ file' = IF o.write THEN Dumped(o.data) ELSE file
               /\ CASE o.err = "ok" ->
                        Returns(END, <<"REGISTER_SUCCESS">>, <<ensured, registered>>)
                    [] o.err = "TutorAlreadyExistsError" ->
                        Returns(END, <<"REGISTER_DUPLICATE">>, <<ensured, registered>>)
                    [] OTHER -> Returns(run.from, <<>>, <<ensured, registered>>)
    /\ Unwind
    /\ UNCHANGED <<lock, clock, book, user_data>>

\* the call of the sheets raises: the except clause of the student callbacks
StudentCallFails ==
    /\ run.status = "running"
    /\ run.invoke.op \in {"add_student_record", "delete_student_record"}
    /\ \E err \in {"SheetNotFoundError", "APIError"} :
          Returns(END, <<"ERROR">>, <<Called(run.invoke.op, run.invoke.args, err)>>)
    /\ UNCHANGED <<file, lock, clock, pc, call, local, result, book, user_data>>

\* add_student_start and add_student_cost after add_student_record
StudentAdded ==
    /\ run.status = "running"
    /\ run.invoke.op = "add_student_record"
    /\ LET a == run.invoke.args
           o == add_student_record(book, a[2], a[3], a[4])
       IN /\ book' = o.book
          /\ Returns(END,
                     IF o.err = "ok" THEN <<"ADD_STUDENT_SUCCESS">>
                     ELSE <<"ADD_STUDENT_DUPLICATE">>,
                     <<Called(run.invoke.op, a, o.err)>>)
    /\ UNCHANGED <<file, lock, clock, pc, call, local, result, user_data>>

\* delete_student_start and delete_student_confirm after delete_student_record
StudentDeleted ==
    /\ run.status = "running"
    /\ run.invoke.op = "delete_student_record"
    /\ LET a == run.invoke.args
           o == delete_student_record(book, a[2], a[3])
       IN /\ book' = o.book
          /\ Returns(END,
                     IF o.deleted THEN <<"DELETE_STUDENT_SUCCESS">>
                     ELSE <<"DELETE_STUDENT_NOT_FOUND">>,
                     <<Called(run.invoke.op, a, IF o.deleted THEN "ok" ELSE "no match")>>)
    /\ UNCHANGED <<file, lock, clock, pc, call, local, result, user_data>>

-----------------------------------------------------------------------------
(* One user and the three conversations *)

BlankText == Text(<<>>, FALSE, TRUE)
NameText == Text(<<"Anna", "Maria">>, TRUE, TRUE)
IdText == Text(<<LongId>>, FALSE, TRUE)
Texts == {BlankText, NameText, IdText}

Command(user, command, args) == Update(user, command, join(args))

\* the messages a user sends
UpdatesOf(user) ==
    {Update(user, None, t) : t \in Texts}
    \cup {Command(user, c, <<>>) :
            c \in {"register", "add_student", "delete_student", "cancel",
                   "confirm", "confirmation", "cancellation", "help"}}
    \cup {Command(user, "add_student", <<"Anna", "Maria", LongId, "500">>),
          Command(user, "delete_student", <<"Anna", "Maria", LongId>>)}

TutorFile(users) ==
    Registry([i \in 1..Len(users) |->
                to_dict(TutorConfig(users[i], "Anna Maria", LongId, 0, 0))])

\* the spreadsheet of the user: the worksheets but the last one, and the
\* student table with two rows of one key and a row between them
StudentBooks ==
    {[n \in {WorksheetNames[i] : i \in 1..Len(WorksheetNames) - 1} \cup {StudentTable} |->
        IF n = StudentTable
        THEN <<StudentHeaders, <<"Anna Maria", LongId, "500">>,
               <<LongId, LongId, "300">>, <<"Anna Maria", LongId, "700">>>>
        ELSE <<HeadersOf(n)>>]}

InitBot(users, files, books) ==
    /\ file \in files
    /\ lock = [i \in {"db1"} |-> Free]
    /\ clock = 0
    /\ book \in books
    /\ conv = [u \in users |-> [register |-> END, add_student |-> END,
                                delete_student |-> END]]
    /\ user_data = [u \in users |-> EmptyUserData]
    /\ run = Idle
    /\ prompt = [u \in users |-> NoPrompt]
    /\ pc = [t \in {Bot} |-> "idle"]
    /\ call = [t \in {Bot} |-> NoSheetCall]
    /\ local = [t \in {Bot} |-> NoFrame]
    /\ result = [t \in {Bot} |-> NoResult]

ConvInit == InitBot({"1001"}, {EmptyRegistry}, StudentBooks)

ConvNext ==
    \/ \E upd \in UpdatesOf("1001") : Receive(upd)
    \/ Open(Bot)
    \/ SheetOpened
    \/ Lookup(Bot)
    \/ Create(Bot)
    \/ Header(Bot)
    \/ SheetsEnsured
    \/ StudentCallFails
    \/ StudentAdded
    \/ StudentDeleted

ConvSpec == ConvInit /\ [][ConvNext]_vars

-----------------------------------------------------------------------------
(* C21..C30: the conversations *)

LastOf(seq) == seq[Len(seq)]

\* the remote call of the callback returned, and did not raise
CallReturned(op) ==
    /\ run.status = "running"
    /\ run.invoke.op = op
    /\ run'.status = "done"
    /\ LastOf(run'.invoked).outcome \notin {"SheetNotFoundError", "APIError"}

\* rows is the table without its i-th row
RowsWithout(rows, i, rest) ==
    /\ Len(rest) = Len(rows) - 1
    /\ \A k \in 1..Len(rest) : rest[k] = rows[IF k < i THEN k ELSE k + 1]

\* C21: delete_student_record(sheet, parent, student) removes exactly the
\* first row whose key is (parent, student), keeps all other rows in their
\* order and returns true; when no row matches it returns false and the table
\* is unchanged.
C21_DeleteFirstMatch ==
    [][CallReturned("delete_student_record") =>
        LET rows == StudentRows(book)
            hits == Matching(rows, run.invoke.args[2], run.invoke.args[3])
            deleted == LastOf(run'.invoked).outcome = "ok"
        IN IF hits = {}
           THEN ~deleted /\ book' = book
           ELSE /\ deleted
                /\ \E i \in hits :
                      /\ \A j \in hits : i <= j
                      /\ RowsWithout(rows, i, StudentRows(book'))
                /\ \A n \in DOMAIN book \ {StudentTable} :
                      n \in DOMAIN book' /\ book'[n] = book[n]]_vars

\* the first of the two rows of a key is deleted, the second is still there
C21_Witness ==
    /\ run.status = "done"
    /\ run.invoked = <<Called("delete_student_record",
                              <<LongId, "Anna Maria", LongId>>, "ok")>>
    /\ StudentRows(book) = <<StudentHeaders, <<LongId, LongId, "300">>,
                             <<"Anna Maria", LongId, "700">>>>

\* the callbacks of the Collecting states and the field each collects
CollectingHandlers ==
    {"register_name", "register_sheet", "add_student_parent",
     "add_student_student", "add_student_cost", "delete_student_parent",
     "delete_student_student"}
FieldOf ==
    [AWAITING_NAME |-> "name",
     ADD_AWAITING_PARENT |-> "parent_name", ADD_AWAITING_STUDENT |-> "student_name",
     DEL_AWAITING_PARENT |-> "parent_name", DEL_AWAITING_STUDENT |-> "student_name"]

\* the validator of the state rejects the text
Rejected(state, text) ==
    CASE state = "AWAITING_NAME" -> ~validate_name(text)
      [] state = "AWAITING_SHEET" -> extract_sheet_id(text) = None
      [] OTHER -> text.words = <<>>

\* the text without leading, trailing and repeated whitespace
Sanitized(text) == Render(Text(text.words, FALSE, FALSE))

NoWrite == book' = book /\ file' = file /\ run'.invoke = NoInvocation

Collects(upd) ==
    LET u == upd.user
        d == Dispatch(conv[u], upd)
        from == StateOf(conv[u], d.flow)
    IN d.handler \in CollectingHandlers =>
          IF Rejected(from, upd.text)
          THEN conv' = conv /\ user_data' = user_data /\ NoWrite
          ELSE from \in DOMAIN NextState =>
                  /\ conv'[u][d.flow] = NextState[from]
                  /\ user_data'[u][FieldOf[from]] = Sanitized(upd.text)
                  /\ NoWrite

Reaches(upd, flow) == Dispatch(conv[upd.user], upd).flow = flow

\* C23: the cancel input is accepted in every non-terminal state of every
\* flow and always leads to Terminal without any repository or registry
\* write; a delete flow that is started and then cancelled reports that no
\* deletion occurred and leaves the table unchanged.
C23_CancelEndsEveryFlow ==
    [][\A upd \in UpdatesOf("1001") :
          upd.command = "cancel" /\ Receive(upd) =>
             /\ \A i \in DOMAIN Flows : conv'[upd.user][Flows[i]] = END
             /\ NoWrite
             /\ conv[upd.user].delete_student # END =>
                   "DELETE_STUDENT_CANCELLED" \in {run'.replies[k] : k \in DOMAIN run'.replies}]_vars

\* C24: in the Confirming state of the delete flow the delete is invoked if
\* and only if the input is exactly the confirm input; the cancel input ends
\* the session with no write; every other input keeps the session in
\* Confirming with unchanged session data and invokes no write.
C24_ConfirmExactly ==
    [][\A upd \in UpdatesOf("1001") :
          /\ conv[upd.user].delete_student = "DEL_AWAITING_CONFIRM"
          /\ Reaches(upd, "delete_student")
          /\ Receive(upd)
          => CASE confirms_exactly(upd) ->
                    run'.invoke.op = "delete_student_record"
               [] upd.command = "cancel" ->
                    conv'[upd.user].delete_student = END /\ NoWrite
               [] OTHER ->
                    /\ conv'[upd.user].delete_student = "DEL_AWAITING_CONFIRM"
                    /\ user_data' = user_data
                    /\ NoWrite]_vars

\* the tutor is registered with a sheet
HasSheet(u) == ~Falsy(check_registration(file, u, clock).sheets_id)

\* the remote call the add flow makes when the fields are typed one by one
StepByStepAdd(u, p, s, c) ==
    LET r0 == add_student_start(Command(u, "add_student", <<>>), u, user_data[u],
                                file, clock)
        r1 == add_student_parent(Update(u, None, p), r0.data)
        r2 == add_student_student(Update(u, None, s), r1.data)
        r3 == add_student_cost(Update(u, None, c), r2.data)
    IN IF r1.to = "ADD_AWAITING_STUDENT" /\ r2.to = "ADD_AWAITING_COST"
       THEN r3.invoke ELSE NoInvocation

\* the remote call the add flow makes when the fields come with the command
PrefilledAdd(u, p, s, c) ==
    add_student_start(Command(u, "add_student", p.words \o s.words \o c.words), u,
                      user_data[u], file, clock).invoke

StepByStepDelete(u, p, s) ==
    LET r0 == delete_student_start(Command(u, "delete_student", <<>>), u,
                                   user_data[u], file, clock)
        r1 == delete_student_parent(Update(u, None, p), r0.data)
        r2 == delete_student_student(Update(u, None, s), r1.data)
        r3 == delete_student_confirm(Command(u, "confirm", <<>>), r2.data)
    IN IF r1.to = "DEL_AWAITING_STUDENT" /\ r2.to = "DEL_AWAITING_CONFIRM"
       THEN r3.invoke ELSE NoInvocation

PrefilledDelete(u, p, s) ==
    delete_student_start(Command(u, "delete_student", p.words \o s.words), u,
                         user_data[u], file, clock).invoke

\* C25: the pre-filled and the step-by-step entry modes of the add-student
\* and delete-student flows are equivalent: for every tuple of field inputs
\* both reject it without a write, or both invoke the same repository
\* operation with the same sanitized arguments.
C25_ModesEquivalent ==
    \A u \in DOMAIN conv :
        HasSheet(u) /\ run.status # "running" =>
            \A p \in Texts, s \in Texts :
                /\ PrefilledDelete(u, p, s) = StepByStepDelete(u, p, s)
                /\ \A c \in Texts :
                      PrefilledAdd(u, p, s, c) = StepByStepAdd(u, p, s, c)

\* C26: whenever a flow's session reaches Terminal the values collected for
\* it (sheets_id, name, parent_name, student_name) are no longer in the
\* identity's session data: with no session active, user_data holds none.
C26_Discarded ==
    \A u \in DOMAIN conv :
        (\A i \in DOMAIN Flows : conv[u][Flows[i]] = END) =>
            user_data[u] = EmptyUserData

FirstState ==
    [register |-> "AWAITING_NAME", add_student |-> "ADD_AWAITING_PARENT",
     delete_student |-> "DEL_AWAITING_PARENT"]
FirstPrompt ==
    [register |-> "REGISTER_ASK_NAME", add_student |-> "ADD_STUDENT_PROMPT_PARENT",
     delete_student |-> "DELETE_STUDENT_PROMPT_PARENT"]
CollectedFields == {"name", "parent_name", "student_name"}

\* the entry command of a flow arrives while the user's session of the flow
\* is in a non-terminal state
Reentry(upd) ==
    /\ upd.command \in DOMAIN FirstState
    /\ conv[upd.user][upd.command] # END
    /\ Receive(upd)

\* The claim C27 as stated: the entry command restarts the active session,
\* which is at the first Collecting state with the first prompt emitted and
\* no collected field retained.
C27_Restart ==
    [][\A upd \in UpdatesOf("1001") :
          Reentry(upd) =>
             /\ conv'[upd.user][upd.command] = FirstState[upd.command]
             /\ run'.replies = <<FirstPrompt[upd.command]>>
             /\ \A k \in CollectedFields : user_data'[upd.user][k] = None]_vars

\* C27: for every identity and flow there is at most one session (conv holds
\* one state per user and flow), and the flow's entry command arriving while
\* that session is in a non-terminal state does not restart it: every
\* conversation stays in its state, every collected field is retained, no
\* write is invoked and the first prompt is not emitted; no handler takes the
\* command but the one of the Confirming state, which takes any text.
C27_NoReentry ==
    [][\A upd \in UpdatesOf("1001") :
          Reentry(upd) =>
             /\ conv' = conv
             /\ user_data' = user_data
             /\ NoWrite
             /\ run'.handler \in {None, "delete_student_confirm"}
             /\ \A k \in DOMAIN run'.replies :
                   run'.replies[k] # FirstPrompt[upd.command]]_vars

\* /add_student arrived after the parent name was collected and no handler
\* took it
C27_Witness ==
    /\ run.command = "add_student"
    /\ run.handler = None
    /\ conv["1001"].add_student = "ADD_AWAITING_STUDENT"
    /\ user_data["1001"].parent_name = "Anna Maria"

-----------------------------------------------------------------------------
(* Two registered users and the delete flow *)

LoopUsers == <<"1001", "1002">>

LoopUpdatesOf(user) ==
    {Update(user, None, NameText),
     Command(user, "delete_student", <<>>),
     Command(user, "delete_student", <<"Anna", "Maria", LongId>>),
     Command(user, "confirm", <<>>),
     Command(user, "cancel", <<>>)}

LoopUpdates == UNION {LoopUpdatesOf(LoopUsers[i]) : i \in DOMAIN LoopUsers}

LoopInit ==
    InitBot({LoopUsers[i] : i \in DOMAIN LoopUsers}, {TutorFile(LoopUsers)},
            StudentBooks)

LoopNext ==
    \/ \E upd \in LoopUpdates : Receive(upd)
    \/ StudentCallFails
    \/ StudentDeleted

LoopSpec == LoopInit /\ [][LoopNext]_vars

\* C28: while the remote call of one session is stalled inside a callback,
\* the inputs of the other identities are still processed: for every other
\* user some update of theirs can be taken.
C28_OthersProgress ==
    run.status = "running" =>
        \A i \in DOMAIN LoopUsers :
            LoopUsers[i] # run.user =>
                \E upd \in LoopUpdatesOf(LoopUsers[i]) : ENABLED Receive(upd)

\* C29: every call of the repository delete is made by the callback of the
\* Confirming state on the explicit confirm input of that session; no path
\* from the entry of the flow reaches the delete without passing Confirming.
C29_DeleteAfterConfirm ==
    run.invoke.op = "delete_student_record" =>
        /\ run.handler = "delete_student_confirm"
        /\ run.from = "DEL_AWAITING_CONFIRM"
        /\ confirms_exactly(run.update)

\* the outcomes of the remote calls of the callback, in their order
Outcomes(called) == [k \in DOMAIN called |-> <<called[k].op, called[k].outcome>>]

Provisioned ==
    <<<<"open_spreadsheet", "ok">>, <<"ensure_all_worksheets", "ok">>>>

\* the first two remote calls of the callback were the successful opening
\* and provisioning of the spreadsheet
WasProvisioned(called) ==
    Len(called) >= 2 /\ SubSeq(Outcomes(called), 1, 2) = Provisioned

\* C30: register_tutor is invoked only after open_spreadsheet and
\* ensure_all_worksheets returned in the same step, and only then the
\* registry changes; when the sheet input is malformed, the spreadsheet
\* cannot be opened or provisioning fails, the registry is unchanged and the
\* session stays in AWAITING_SHEET; /register of a registered user ends the
\* session at once with the registry unchanged.
C30_RegisterAfterProvisioning ==
    [][/\ \A k \in DOMAIN run'.invoked :
             run'.invoked[k].op = "register_tutor" =>
                k = 3 /\ WasProvisioned(run'.invoked)
       /\ file' # file =>
             /\ run.handler = "register_sheet" /\ run.status = "running"
             /\ Outcomes(run'.invoked) =
                   Provisioned \o <<<<"register_tutor", "ok">>>>
       /\ (/\ run'.handler = "register_sheet"
           /\ run'.status = "done"
           /\ ~WasProvisioned(run'.invoked))
          => conv'[run'.user].register = "AWAITING_SHEET" /\ file' = file
       /\ \A upd \in UpdatesOf("1001") :
             upd.command = "register" /\ Registered(file, upd.user) /\ Receive(upd)
             => conv'[upd.user].register = END /\ file' = file]_vars

\* the user is registered with the name and the sheet they typed, after the
\* sheet was opened and provisioned
C30_Witness ==
    /\ run.handler = "register_sheet"
    /\ Outcomes(run.invoked) = Provisioned \o <<<<"register_tutor", "ok">>>>
    /\ conv["1001"].register = END
    /\ Registered(file, "1001")
    /\ file.tutors[1].name = "Anna Maria"
    /\ file.tutors[1].sheets_id = LongId

-----------------------------------------------------------------------------
(* The confirmed deletion and the prompt it confirms *)

\* the deletion the confirmation invoked waits for the sheets
ConfirmedDeletion ==
    /\ run.status = "running"
    /\ run.handler = "delete_student_confirm"
    /\ run.invoke.op = "delete_student_record"

\* C31: the (parent, student) pair delete_student_confirm passes to the
\* deletion is the pair the confirmation prompt of the session showed,
\* whatever the user sent to the add-student flow in between
C31_DeletesPromptedPair ==
    ConfirmedDeletion =>
        <<run.invoke.args[2], run.invoke.args[3]>> = prompt[run.user]

-----------------------------------------------------------------------------
(* ShareSpec: the callers of RegisterSpec register through any instance    *)
(* constructed on the one file, and construct the second instance          *)
(* themselves (test_persistence, with the calls of the two instances       *)
(* overlapping)                                                            *)

\* register_tutor(own id, ...) is called on an instance constructed on the file
RegisterThrough(t) ==
    /\ pc[t] = "idle"
    /\ \E inst \in DOMAIN lock :
            call' = [call EXCEPT ![t] =
                        CallOf("register", inst, CallerIds[t], "Anna", "ws-1",
                               EmptyKwargs)]
    /\ pc' = [pc EXCEPT ![t] = "acquire"]
    /\ UNCHANGED <<file, lock, clock, local, result, book, conv, user_data, run, prompt>>

\* a constructor is running
Constructing == \E t \in DOMAIN pc : call[t].op = "construct"

ShareInit == InitOpened /\ InitThreads(Callers)

ShareNext ==
    \/ \E t \in DOMAIN pc : ~Constructing /\ Construct(t)
    \/ \E t \in DOMAIN pc : EnsureExists(t)
    \/ \E t \in DOMAIN pc : EnsureContent(t)
    \/ \E t \in DOMAIN pc : RegisterThrough(t)
    \/ \E t \in DOMAIN pc : Acquire(t)
    \/ \E t \in DOMAIN pc : Body(t)
    \/ \E t \in DOMAIN pc : WriteOpen(t)
    \/ \E t \in DOMAIN pc : WriteDump(t)
    \/ \E t \in DOMAIN pc : Release(t)
    \/ \E t \in DOMAIN pc : call[t].op = "construct" /\ Finish(t)
    \/ Tick

ShareSpec == ShareInit /\ [][ShareNext]_vars

\* no call and no constructor is under way
AtRest == \A t \in DOMAIN pc : pc[t] \in {"idle", "done"}

\* C32: register_tutor calls for distinct ids through the instances on one
\* file, overlapping each other and the construction of an instance, lose no
\* entry: once all have returned, the file holds every id whose call succeeded
C32_NoLostEntry ==
    AtRest =>
        \A t \in DOMAIN pc :
            call[t].op = "register" /\ result[t].err = "ok"
                => Registered(file, call[t].telegram_id)

-----------------------------------------------------------------------------
(* CrashSpec: a process makes one call on a registry that holds a tutor    *)
(* and dies inside _write_db; then a new process constructs instances on   *)
(* the file and reads.  Thread t1 is the process that dies: it stays where *)
(* it died, with the call and the data it was writing; thread t2 is the    *)
(* process started afterwards.                                             *)

Dying == "t1"
Restarted == "t2"

\* the registry before the call
BeforeCrash == TutorFile(<<"1001">>)

\* what the death of the process inside _write_db leaves of the file: before
\* open() the file as it was; after open() the truncated file, a prefix of
\* the JSON text, or the whole text
CrashLeaves(t) ==
    IF pc[t] = "write" THEN {file}
    ELSE {Blank, FileOf("badjson", <<>>), Dumped(local[t])}

\* the process dies inside _write_db; its locks die with it
Crash(t) ==
    /\ pc[t] \in {"write", "dump"}
    /\ file' \in CrashLeaves(t)
    /\ pc' = [pc EXCEPT ![t] = "crashed"]
    /\ lock' = [i \in {} |-> Free]
    /\ UNCHANGED <<clock, call, local, result, book, conv, user_data, run, prompt>>

Crashed == pc[Dying] = "crashed"

ReadCalls(insts) ==
    {CallOf("get", inst, id, None, None, EmptyKwargs) :
        inst \in insts, id \in TelegramIds}

CrashInit ==
    /\ file = BeforeCrash
    /\ lock = [i \in {"db1"} |-> Free]
    /\ clock = 0
    /\ book = NoBook
    /\ NoBot
    /\ InitThreads({Dying, Restarted})

CrashNext ==
    \/ Call(Dying, FewCalls(DOMAIN lock))
    \/ Crash(Dying)
    \/ Crashed /\ Construct(Restarted)
    \/ EnsureExists(Restarted)
    \/ EnsureContent(Restarted)
    \/ Crashed /\ Call(Restarted, ReadCalls(DOMAIN lock))
    \/ \E t \in DOMAIN pc : Acquire(t)
    \/ \E t \in DOMAIN pc : Body(t)
    \/ \E t \in DOMAIN pc : WriteOpen(t)
    \/ \E t \in DOMAIN pc : WriteDump(t)
    \/ \E t \in DOMAIN pc : Release(t)
    \/ Finish(Restarted)
    \/ Tick

CrashSpec == CrashInit /\ [][CrashNext]_vars

\* what get_tutor(id) returns or raises on file f
Sees(f, telegram_id) ==
    LET o == GetOn(f, telegram_id, clock) IN [err |-> o.err, val |-> o.val]

\* the registry the interrupted write was writing
AfterCrash == Dumped(local[Dying])

\* C33: after a crash inside a registry file write and the opening of a new
\* instance on the file, every get_tutor returns what it returns on the
\* registry before the interrupted write or on the registry after it, or
\* fails with ConfigurationError: no tutor registered before the crash is
\* missing from a registry that reads without error
C33_BeforeOrAfterCrash ==
    (Crashed /\ pc[Restarted] = "done" /\ call[Restarted].op = "get") =>
        \/ result[Restarted].err = "ConfigurationError"
        \/ result[Restarted] = Sees(BeforeCrash, call[Restarted].telegram_id)
        \/ result[Restarted] = Sees(AfterCrash, call[Restarted].telegram_id)

-----------------------------------------------------------------------------
(* SameIdSpec: the callers of RegisterSpec all register the same id on the *)
(* one instance, each with a name and a sheets_id of its choice            *)
(* (test_thread_safe_operations, with one id)                              *)

CallRegisterSame(t) ==
    /\ pc[t] = "idle"
    /\ \E n \in Names, s \in SheetIds :
            call' = [call EXCEPT ![t] =
                        CallOf("register", "db1", "1001", n, s, EmptyKwargs)]
    /\ pc' = [pc EXCEPT ![t] = "acquire"]
    /\ UNCHANGED <<file, lock, clock, local, result, book, conv, user_data, run, prompt>>

SameIdNext ==
    \/ \E t \in DOMAIN pc : CallRegisterSame(t)
    \/ \E t \in DOMAIN pc : Acquire(t)
    \/ \E t \in DOMAIN pc : Body(t)
    \/ \E t \in DOMAIN pc : WriteOpen(t)
    \/ \E t \in DOMAIN pc : WriteDump(t)
    \/ \E t \in DOMAIN pc : Release(t)
    \/ Tick

SameIdSpec == RegisterInit /\ [][SameIdNext]_vars

\* every caller's register_tutor has returned or raised
AllReturned == \A t \in DOMAIN pc : pc[t] = "done" /\ call[t].op = "register"

\* the callers whose call returned a TutorConfig
Winners == {t \in DOMAIN pc : result[t].err = "ok"}

\* C40: when the concurrent register_tutor calls of one id on one instance
\* have all returned, exactly one succeeded, every other one failed with
\* TutorAlreadyExistsError, and the one stored entry of the id has the name
\* and the sheets_id of the call that succeeded
C40_OneWinner ==
    AllReturned =>
        /\ Cardinality(Winners) = 1
        /\ \A t \in DOMAIN pc \ Winners : result[t].err = "TutorAlreadyExistsError"
        /\ file.kind = "registry"
        /\ Len(file.tutors) = 1
        /\ \A t \in Winners :
              /\ file.tutors[1].telegram_id = call[t].telegram_id
              /\ file.tutors[1].name = call[t].name
              /\ file.tutors[1].sheets_id = call[t].sheets_id

\* all calls have returned, and the call that lost asked for another name and
\* another sheets_id than the entry has
C40_Witness ==
    /\ AllReturned
    /\ \E t \in DOMAIN pc :
          /\ result[t].err = "TutorAlreadyExistsError"
          /\ file.tutors[1].name # call[t].name
          /\ file.tutors[1].sheets_id # call[t].sheets_id

-----------------------------------------------------------------------------
(* Concurrent callers of the sheets.  SheetsManager takes no lock: the      *)
(* methods of two tasks interleave between their calls of the backend, and  *)
(* each call of the backend is one step.                                    *)

Tasks == {"a", "b"}

InitTasks(T, books) ==
    /\ file = EmptyRegistry
    /\ lock = [i \in {"db1"} |-> Free]
    /\ clock = 0
    /\ book \in books
    /\ NoBot
    /\ pc = [t \in T |-> "idle"]
    /\ call = [t \in T |-> NoSheetCall]
    /\ local = [t \in T |-> NoFrame]
    /\ result = [t \in T |-> NoResult]

-----------------------------------------------------------------------------
(* FirstAccessSpec: two tasks, each with one call of ensure, add, update,   *)
(* set_setting or log_event, on a spreadsheet that starts without           *)
(* worksheets                                                               *)

FirstCalls ==
    {SheetCallOf("ensure_worksheet_exists", "Students", NoArg),
     SheetCallOf("add_student", "Students", NewRecord("Student", NoRow)),
     SheetCallOf("update_student", "Students", NewRecord("Student", 2)),
     SheetCallOf("set_setting", "Settings", [key |-> "lang", value |-> "de"]),
     SheetCallOf("log_event", "History", [event |-> "login", detail |-> ""])}

FirstAccessInit == InitTasks(Tasks, {NoBook})

FirstAccessNext ==
    \/ \E t \in DOMAIN pc : pc[t] = "idle" /\ SheetCall(t, FirstCalls)
    \/ \E t \in DOMAIN pc : Open(t)
    \/ \E t \in DOMAIN pc : Lookup(t)
    \/ \E t \in DOMAIN pc : Create(t)
    \/ \E t \in DOMAIN pc : Header(t)
    \/ \E t \in DOMAIN pc : Scan(t)
    \/ \E t \in DOMAIN pc : AppendRow(t)
    \/ \E t \in DOMAIN pc : Cell(t)

FirstAccessSpec == FirstAccessInit /\ [][FirstAccessNext]_vars

\* the add_worksheet of task t fails
CreateFails(t) ==
    /\ pc[t] = "create"
    /\ pc'[t] = "done"
    /\ result'[t].err = "WorksheetNotFoundError"

\* C34: when tasks concurrently make the first access to a missing table, a
\* table that exists stays (it is not deleted and not created again), and no
\* task's creation fails on a table another task created first
C34_CreatedOnce ==
    [][/\ \A n \in DOMAIN book : n \in DOMAIN book'
       /\ \A t \in DOMAIN pc :
            CreateFails(t) => local[t].name \notin DOMAIN book]_vars

\* C35: whenever a built-in table exists and holds a row, its row 1 is the
\* header declared for its name, under every interleaving of ensure, add,
\* update, set_setting and log_event and after a failure of the backend
\* between the creation of the table and the append of its header
C35_HeaderFirst ==
    \A n \in DOMAIN book :
        (n \in DOMAIN WORKSHEET_HEADERS /\ book[n] # <<>>) =>
            book[n][1] = HeadersOf(n)

-----------------------------------------------------------------------------
(* StaleSpec: a caller lists a table of two records and updates a listed   *)
(* record; between the list and the update another writer of the           *)
(* spreadsheet removes a row or inserts one                                *)

InsertAt(seq, i, x) == SubSeq(seq, 1, i - 1) \o <<x>> \o SubSeq(seq, i, Len(seq))

\* a data row of the kind with another first field
RowOf(kind, first) == [DataRow(kind) EXCEPT ![1] = first]

\* the caller has its list and has not called again
HasListed(t) ==
    pc[t] = "done" /\ call[t].op \in ListOps /\ result[t].err = "ok"

\* another writer removes a data row of the table or inserts one, once, after
\* the caller's list
Edit(t) ==
    /\ HasListed(t)
    /\ book = local[t].before
    /\ LET name == call[t].name
           rows == book[name]
       IN \/ \E i \in 2..Len(rows) :
                book' = [book EXCEPT ![name] = TrimRows(Without(rows, i))]
          \/ \E i \in 2..(Len(rows) + 1) :
                book' = [book EXCEPT ![name] =
                            InsertAt(rows, i, RowOf(KindOf(call[t].op), "Zoe"))]
    /\ UNCHANGED <<file, lock, clock, pc, call, local, result, conv, user_data, run, prompt>>

StaleBooks ==
    {[n \in {TableOf(kind)} |->
        <<HeadersOf(n), DataRow(kind), RowOf(kind, "Ira")>>] : kind \in Kinds}

StaleCalls(t) ==
    UpdatesOfListed(t) \cup
    {SheetCallOf(ListOp(kind), TableOf(kind), NoArg) :
        kind \in {k \in Kinds : TableOf(k) \in DOMAIN book}}

StaleInit == InitSheets(StaleBooks)

StaleNext ==
    \/ \E t \in DOMAIN pc : SheetCall(t, StaleCalls(t))
    \/ \E t \in DOMAIN pc : Open(t)
    \/ \E t \in DOMAIN pc : Lookup(t)
    \/ \E t \in DOMAIN pc : Scan(t)
    \/ \E t \in DOMAIN pc : Cell(t)
    \/ \E t \in DOMAIN pc : Edit(t)

StaleSpec == StaleInit /\ [][StaleNext]_vars

\* task t has ended the update of a record of its last list
UpdatedListed(t) ==
    /\ pc[t] = "done"
    /\ call[t].op \in UpdateOps
    /\ local[t].prev.call.op = ListOp(KindOf(call[t].op))
    /\ local[t].prev.result.err = "ok"

\* the records of the list that the update names by its position
ListedAt(t) ==
    {local[t].prev.result.val[j] : j \in
        {k \in DOMAIN local[t].prev.result.val :
            local[t].prev.result.val[k].sheet_row = call[t].arg.sheet_row}}

\* when the update began, the row at its position did not hold the record
\* the list gave for that position
Stale(t) ==
    LET rows == local[t].before[call[t].name]
        p == call[t].arg.sheet_row
    IN \/ p > Len(rows)
       \/ from_row(KindOf(call[t].op), get_all_values(rows)[p], p) \notin ListedAt(t)

\* C36: update_student / update_lesson / update_payment detect no staleness:
\* the update of a listed record ends without error unless the backend fails,
\* also when another writer removed or inserted a row above the position
\* after the list, and it has overwritten the row then at the position and
\* no other row
C36_NoStalenessDetection ==
    \A t \in DOMAIN pc : UpdatedListed(t) =>
        /\ result[t].err \in {"ok", "SheetNotFoundError", "APIError"}
        /\ result[t].err = "ok" =>
              Overwritten(local[t].before[call[t].name], book[call[t].name],
                          call[t].arg.sheet_row,
                          to_row(KindOf(call[t].op), call[t].arg))

\* the update of the record listed at row 3 ended without error after a row
\* above it was removed or inserted: row 3 held another record, or no record
C36_Witness ==
    \E t \in DOMAIN pc :
        /\ UpdatedListed(t)
        /\ result[t].err = "ok"
        /\ call[t].arg.sheet_row = 3
        /\ Stale(t)
        /\ book[call[t].name][3] = to_row(KindOf(call[t].op), call[t].arg)

-----------------------------------------------------------------------------
(* UpdateSpec: one caller makes one update, at a position inside or beyond  *)
(* a table of two records whose first record has a cell right of the last   *)
(* declared column                                                          *)

\* a record of the kind whose fields are all empty
EmptyRecord(kind, sheet_row) ==
    CASE kind = "Student" -> Student("", None, None, None, None, sheet_row)
      [] kind = "Lesson" -> Lesson("", "", None, None, None, None, sheet_row)
      [] OTHER -> Payment("", "", "", None, None, sheet_row)

\* a data row with a cell after the columns of the kind
WideRow(kind) == Pad(DataRow(kind), Len(HeadersOf(TableOf(kind)))) \o <<"extra">>

UpdateBooks ==
    {[n \in {TableOf(kind)} |->
        <<HeadersOf(n), WideRow(kind), RowOf(kind, "Ira")>>] : kind \in Kinds}

\* the positions updated: the two records, and two rows below the last one
Positions == {2, 3, 5}

UpdateCalls ==
    {SheetCallOf(UpdateOp(kind), TableOf(kind), rec) :
        kind \in {k \in Kinds : TableOf(k) \in DOMAIN book},
        rec \in UNION {{NewRecord(k, p), EmptyRecord(k, p)} :
                            k \in {j \in Kinds : TableOf(j) \in DOMAIN book},
                            p \in Positions}}

UpdateInit == InitSheets(UpdateBooks)

UpdateNext ==
    \/ \E t \in DOMAIN pc : pc[t] = "idle" /\ SheetCall(t, UpdateCalls)
    \/ \E t \in DOMAIN pc : Open(t)
    \/ \E t \in DOMAIN pc : Lookup(t)
    \/ \E t \in DOMAIN pc : Cell(t)

UpdateSpec == UpdateInit /\ [][UpdateNext]_vars

\* task t makes a request of update_X and the backend takes it
WritesCell(t) ==
    /\ pc[t] = "cell"
    /\ call[t].op \in UpdateOps
    /\ ~(pc'[t] = "done" /\ result'[t].err # "ok")

\* the request writes the cell (p, c) and no other cell, c being the column
\* after the one written before
OneCell(t) ==
    LET name == call[t].name
        p == call[t].arg.sheet_row
        c == local[t].i
        row_data == to_row(KindOf(call[t].op), call[t].arg)
    IN /\ Overwritten(update_cell(book[name], p, c, CellAt(book[name], p, c)),
                      update_cell(book'[name], p, c, CellAt(book[name], p, c)),
                      p, <<>>)
       /\ CellAt(book'[name], p, c) = row_data[c]
       /\ pc'[t] = "cell" => local'[t].i = c + 1
       /\ pc'[t] = "done" => c = Len(row_data)

\* with its last request, update_X has written the cells 1..n of row p and
\* changed no other cell
RowWritten(t) ==
    pc'[t] = "done" =>
        Overwritten(local[t].before[call[t].name], book'[call[t].name],
                    call[t].arg.sheet_row,
                    to_row(KindOf(call[t].op), call[t].arg))

\* C37, as stated: update_X at position p writes the cells of row p in the
\* columns 1..n, each once, changes no other cell, and leaves the number of
\* rows of the table as it was
C37_RowCountKept ==
    [][\A t \in DOMAIN pc : WritesCell(t) =>
            /\ OneCell(t)
            /\ RowWritten(t)
            /\ pc'[t] = "done" =>
                  Len(book'[call[t].name]) = Len(local[t].before[call[t].name])]_vars

\* C37, amended: update_X at position p writes the cells of row p in the
\* columns 1..n, each once, and changes no other cell; the number of rows is
\* unchanged when p is above the last row, and for a record with a non-empty
\* field it is the larger of p and the number of rows before: an update
\* below the last row adds row p
C37_RowWritten ==
    [][\A t \in DOMAIN pc : WritesCell(t) =>
            /\ OneCell(t)
            /\ RowWritten(t)
            /\ pc'[t] = "done" =>
                  LET before == Len(local[t].before[call[t].name])
                      after == Len(book'[call[t].name])
                      p == call[t].arg.sheet_row
                      row_data == to_row(KindOf(call[t].op), call[t].arg)
                  IN /\ p < before => after = before
                     /\ Trim(row_data) # <<>> => after = Max(before, p)]_vars

\* an update at row 5 of a table of three rows has ended: the table has five
\* rows, the fourth blank
C37_Witness ==
    \E t \in DOMAIN pc :
        /\ pc[t] = "done" /\ result[t].err = "ok"
        /\ call[t].op \in UpdateOps
        /\ call[t].arg.sheet_row = 5
        /\ Len(local[t].before[call[t].name]) = 3
        /\ Len(book[call[t].name]) = 5
        /\ book[call[t].name][4] = <<>>

-----------------------------------------------------------------------------
(* MixSpec: two tasks, each with one call, list a table of one record and   *)
(* update that record                                                       *)

MixBooks ==
    {[n \in {TableOf(kind)} |-> <<HeadersOf(n), DataRow(kind)>>] : kind \in Kinds}

MixCalls ==
    UNION {{SheetCallOf(ListOp(kind), TableOf(kind), NoArg),
            SheetCallOf(UpdateOp(kind), TableOf(kind), NewRecord(kind, 2))} :
                kind \in {k \in Kinds : TableOf(k) \in DOMAIN book}}

MixInit == InitTasks(Tasks, MixBooks)

MixNext ==
    \/ \E t \in DOMAIN pc : pc[t] = "idle" /\ SheetCall(t, MixCalls)
    \/ \E t \in DOMAIN pc : Open(t)
    \/ \E t \in DOMAIN pc : Lookup(t)
    \/ \E t \in DOMAIN pc : Scan(t)
    \/ \E t \in DOMAIN pc : Cell(t)

MixSpec == MixInit /\ [][MixNext]_vars

\* the record get_all_X returns for a table whose row 2 is row
ReadAs(kind, row) ==
    from_row(kind, get_all_values(<<HeadersOf(TableOf(kind)), row>>)[2], 2)

\* C38: a list that runs concurrently with an update of a row returns for
\* that row a record with all the old field values or all the new ones,
\* never a mixture
C38_RowAtomic ==
    \A t \in DOMAIN pc :
        (pc[t] = "done" /\ call[t].op \in ListOps /\ result[t].err = "ok") =>
            \A j \in DOMAIN result[t].val :
                LET kind == KindOf(call[t].op)
                IN \/ result[t].val[j] = ReadAs(kind, DataRow(kind))
                   \/ result[t].val[j] = ReadAs(kind, to_row(kind, NewRecord(kind, 2)))

-----------------------------------------------------------------------------
(* SetRaceSpec: two tasks, each with one call of set_setting, on a Settings *)
(* table that holds its header and one key                                  *)

SetRaceBooks == {[n \in {"Settings"} |-> <<HeadersOf(n), <<"tz", "utc">>>>]}

SetRaceCalls ==
    {SheetCallOf("set_setting", "Settings", [key |-> k, value |-> v]) :
        k \in {"lang", "tz"}, v \in {"de", "en"}}

SetRaceInit == InitTasks(Tasks, SetRaceBooks)

SetRaceNext ==
    \/ \E t \in DOMAIN pc : pc[t] = "idle" /\ SheetCall(t, SetRaceCalls)
    \/ \E t \in DOMAIN pc : Open(t)
    \/ \E t \in DOMAIN pc : Lookup(t)
    \/ \E t \in DOMAIN pc : Scan(t)
    \/ \E t \in DOMAIN pc : AppendRow(t)
    \/ \E t \in DOMAIN pc : Cell(t)

SetRaceSpec == SetRaceInit /\ [][SetRaceNext]_vars

\* no two rows after the header have the same key
UniqueKeys(rows) ==
    \A i, j \in 2..Len(rows) :
        (rows[i] # <<>> /\ rows[j] # <<>> /\ rows[i][1] = rows[j][1]) => i = j

\* the set_setting of task t completes: its cell update or its append is done
SetCompletes(t) ==
    /\ call[t].op = "set_setting"
    /\ pc[t] \in {"cell", "append"}
    /\ pc'[t] = "done"
    /\ result'[t].err = "ok"

\* C39: from a Settings table with distinct keys, concurrent set_setting
\* calls leave at most one row per key, and get_setting(k) returns the value
\* of the set_setting(k, v) that completed last: every write of the table is
\* the completion of a set_setting, and after it the keys are distinct and
\* get_setting(k) is v
C39_LastSetWins ==
    [][\A t \in DOMAIN pc : SetCompletes(t) =>
            /\ UniqueKeys(book'["Settings"])
            /\ get_setting(get_all_values(book'["Settings"]), call[t].arg.key)
                    = call[t].arg.value]_vars

====
